---- MODULE Spec2Model ----
(***************************************************************************)
(* Model of the Bocha web-search MCP server: the tool Handler              *)
(* (src/mcp/tools.go, SearchTool.Handler and its helpers) calling          *)
(* BochaService.Search (src/search/service.go) on one client instance.     *)
(*                                                                         *)
(* A Go string is modelled as the sequence of its bytes.  An ASCII byte is *)
(* written as the one-character string of that character; a byte of a     *)
(* multi-byte UTF-8 character is written "xHH".  len(s) is Len(s).         *)
(***************************************************************************)
EXTENDS Integers, Sequences, FiniteSets, TLC

----------------------------------------------------------------------------
(* String literals of the source. *)

\* 'query parameter is required and must be a string'
ErrQueryRequired == <<"q","u","e","r","y"," ","p","a","r","a","m","e","t","e","r"," ","i","s"," ","r","e","q","u","i","r","e","d"," ","a","n","d"," ","m","u","s","t"," ","b","e"," ","a"," ","s","t","r","i","n","g">>
\* 'query is too long (maximum 1000 characters)'
ErrQueryTooLong == <<"q","u","e","r","y"," ","i","s"," ","t","o","o"," ","l","o","n","g"," ","(","m","a","x","i","m","u","m"," ","1","0","0","0"," ","c","h","a","r","a","c","t","e","r","s",")">>
\* 'invalid freshness value: '
ErrInvalidFreshnessPrefix == <<"i","n","v","a","l","i","d"," ","f","r","e","s","h","n","e","s","s"," ","v","a","l","u","e",":"," ">>
\* ', must be one of: noLimit, day, week, month, oneYear'
ErrInvalidFreshnessSuffix == <<","," ","m","u","s","t"," ","b","e"," ","o","n","e"," ","o","f",":"," ","n","o","L","i","m","i","t",","," ","d","a","y",","," ","w","e","e","k",","," ","m","o","n","t","h",","," ","o","n","e","Y","e","a","r">>
\* 'Search timed out after 30 seconds'
MsgTimedOut == <<"S","e","a","r","c","h"," ","t","i","m","e","d"," ","o","u","t"," ","a","f","t","e","r"," ","3","0"," ","s","e","c","o","n","d","s">>
\* 'Search failed: '
MsgSearchFailed == <<"S","e","a","r","c","h"," ","f","a","i","l","e","d",":"," ">>
\* 'rate limit exceeded: '
ErrRateLimitPrefix == <<"r","a","t","e"," ","l","i","m","i","t"," ","e","x","c","e","e","d","e","d",":"," ">>
\* 'search query cannot be empty'
ErrEmptyQuery == <<"s","e","a","r","c","h"," ","q","u","e","r","y"," ","c","a","n","n","o","t"," ","b","e"," ","e","m","p","t","y">>
\* 'failed to send request to Bocha API: '
ErrSendPrefix == <<"f","a","i","l","e","d"," ","t","o"," ","s","e","n","d"," ","r","e","q","u","e","s","t"," ","t","o"," ","B","o","c","h","a"," ","A","P","I",":"," ">>
\* 'failed to read Bocha API response body: '
ErrReadPrefix == <<"f","a","i","l","e","d"," ","t","o"," ","r","e","a","d"," ","B","o","c","h","a"," ","A","P","I"," ","r","e","s","p","o","n","s","e"," ","b","o","d","y",":"," ">>
\* 'bocha api error (status '
ErrApiPrefix == <<"b","o","c","h","a"," ","a","p","i"," ","e","r","r","o","r"," ","(","s","t","a","t","u","s"," ">>
\* '): '
ErrApiMid == <<")",":"," ">>
\* 'bocha api returned status code '
ErrStatusPrefix == <<"b","o","c","h","a"," ","a","p","i"," ","r","e","t","u","r","n","e","d"," ","s","t","a","t","u","s"," ","c","o","d","e"," ">>
\* 'failed to parse bocha api response: '
ErrParsePrefix == <<"f","a","i","l","e","d"," ","t","o"," ","p","a","r","s","e"," ","b","o","c","h","a"," ","a","p","i"," ","r","e","s","p","o","n","s","e",":"," ">>
\* 'bocha api returned empty or invalid response'
ErrEmptyResponse == <<"b","o","c","h","a"," ","a","p","i"," ","r","e","t","u","r","n","e","d"," ","e","m","p","t","y"," ","o","r"," ","i","n","v","a","l","i","d"," ","r","e","s","p","o","n","s","e">>
\* 'Bearer '
BearerMarker == <<"B","e","a","r","e","r"," ">>
\* 'http'
HttpMarker == <<"h","t","t","p">>
\* 'http://'
HttpPrefix == <<"h","t","t","p",":","/","/">>
\* 'https://'
HttpsPrefix == <<"h","t","t","p","s",":","/","/">>
\* '[REDACTED]'
Redacted == <<"[","R","E","D","A","C","T","E","D","]">>
\* '[URL REDACTED]'
UrlRedacted == <<"[","U","R","L"," ","R","E","D","A","C","T","E","D","]">>
\* ' \t\n\r",;:)'
BoundaryChars == <<" ","\t","\n","\r","\"",",",";",":",")">>
\* 'context canceled'
TextCanceled == <<"c","o","n","t","e","x","t"," ","c","a","n","c","e","l","e","d">>
\* 'context deadline exceeded'
TextDeadlineExceeded == <<"c","o","n","t","e","x","t"," ","d","e","a","d","l","i","n","e"," ","e","x","c","e","e","d","e","d">>
\* 'rate: Wait(n=1) would exceed context deadline'
TextWouldExceed == <<"r","a","t","e",":"," ","W","a","i","t","(","n","=","1",")"," ","w","o","u","l","d"," ","e","x","c","e","e","d"," ","c","o","n","t","e","x","t"," ","d","e","a","d","l","i","n","e">>
\* 'context deadline exceeded (Client.Timeout exceeded while awaiting headers)'
TextClientTimeout == <<"c","o","n","t","e","x","t"," ","d","e","a","d","l","i","n","e"," ","e","x","c","e","e","d","e","d"," ","(","C","l","i","e","n","t",".","T","i","m","e","o","u","t"," ","e","x","c","e","e","d","e","d"," ","w","h","i","l","e"," ","a","w","a","i","t","i","n","g"," ","h","e","a","d","e","r","s",")">>
\* 'dial tcp 10.0.0.1:443: connect: connection refused'
TextConnRefused == <<"d","i","a","l"," ","t","c","p"," ","1","0",".","0",".","0",".","1",":","4","4","3",":"," ","c","o","n","n","e","c","t",":"," ","c","o","n","n","e","c","t","i","o","n"," ","r","e","f","u","s","e","d">>
\* 'unexpected EOF'
TextUnexpectedEOF == <<"u","n","e","x","p","e","c","t","e","d"," ","E","O","F">>
\* 'unexpected end of JSON input'
TextJsonEnd == <<"u","n","e","x","p","e","c","t","e","d"," ","e","n","d"," ","o","f"," ","J","S","O","N"," ","i","n","p","u","t">>
\* "invalid character 'i' looking for beginning of object key string"
TextJsonInvalid == <<"i","n","v","a","l","i","d"," ","c","h","a","r","a","c","t","e","r"," ","'","i","'"," ","l","o","o","k","i","n","g"," ","f","o","r"," ","b","e","g","i","n","n","i","n","g"," ","o","f"," ","o","b","j","e","c","t"," ","k","e","y"," ","s","t","r","i","n","g">>
\* 'json: cannot unmarshal number into Go struct field .error of type string'
TextJsonType == <<"j","s","o","n",":"," ","c","a","n","n","o","t"," ","u","n","m","a","r","s","h","a","l"," ","n","u","m","b","e","r"," ","i","n","t","o"," ","G","o"," ","s","t","r","u","c","t"," ","f","i","e","l","d"," ",".","e","r","r","o","r"," ","o","f"," ","t","y","p","e"," ","s","t","r","i","n","g">>
\* 'Post "'
PostQuote == <<"P","o","s","t"," ","\"">>
\* '": '
QuoteColon == <<"\"",":"," ">>
\* 'noLimit'
FNoLimit == <<"n","o","L","i","m","i","t">>
\* 'day'
FDay == <<"d","a","y">>
\* 'week'
FWeek == <<"w","e","e","k">>
\* 'month'
FMonth == <<"m","o","n","t","h">>
\* 'oneYear'
FOneYear == <<"o","n","e","Y","e","a","r">>
\* 'query'
WordQuery == <<"q","u","e","r","y">>
\* 'POST'
MethodPost == <<"P","O","S","T">>
\* 'application/json'
ContentTypeJson == <<"a","p","p","l","i","c","a","t","i","o","n","/","j","s","o","n">>
\* 'BochaWebSearchMCPServer/1.0'
UserAgent == <<"B","o","c","h","a","W","e","b","S","e","a","r","c","h","M","C","P","S","e","r","v","e","r","/","1",".","0">>

----------------------------------------------------------------------------
(* Go standard-library string functions used by the source. *)

\* strings.Index: 0-based index of the first occurrence of sep in s, or -1.
Index(s, sep) ==
    LET hits == {i \in 0..(Len(s) - Len(sep)) : SubSeq(s, i + 1, i + Len(sep)) = sep}
    IN  IF hits = {} THEN -1 ELSE CHOOSE i \in hits : \A j \in hits : i <= j

\* strings.Contains
Contains(s, sub) == Index(s, sub) # -1

\* strings.IndexAny: 0-based index of the first byte of s that is in chars, or -1.
IndexAny(s, chars) ==
    LET cs   == {chars[k] : k \in DOMAIN chars}
        hits == {i \in 0..(Len(s) - 1) : s[i + 1] \in cs}
    IN  IF hits = {} THEN -1 ELSE CHOOSE i \in hits : \A j \in hits : i <= j

\* s[from:] with Go's 0-based offset.
From(s, from) == SubSeq(s, from + 1, Len(s))

\* s[:to] with Go's 0-based offset.
Upto(s, to) == SubSeq(s, 1, to)

\* strings.HasPrefix
HasPrefix(s, p) == Len(s) >= Len(p) /\ Upto(s, Len(p)) = p

\* strings.Split with a non-empty separator.
RECURSIVE Split(_, _)
Split(s, sep) ==
    LET i == Index(s, sep)
    IN  IF i = -1 THEN <<s>>
        ELSE <<Upto(s, i)>> \o Split(From(s, i + Len(sep)), sep)

\* strings.Join
RECURSIVE Join(_, _)
Join(parts, sep) ==
    IF Len(parts) = 0 THEN <<>>
    ELSE IF Len(parts) = 1 THEN parts[1]
    ELSE parts[1] \o sep \o Join(Tail(parts), sep)

\* The decimal digits, for %d.
Digits == <<"0","1","2","3","4","5","6","7","8","9">>

\* fmt's %d of an integer.
RECURSIVE Itoa(_)
Itoa(n) ==
    IF n < 0 THEN <<"-">> \o Itoa(-n)
    ELSE IF n < 10 THEN <<Digits[n + 1]>>
    ELSE Itoa(n \div 10) \o <<Digits[(n % 10) + 1]>>

\* fmt's %q of a string: Go-quoted, with the quote and the backslash escaped.
RECURSIVE EscapeQ(_)
EscapeQ(s) ==
    IF Len(s) = 0 THEN <<>>
    ELSE (IF s[1] = "\"" \/ s[1] = "\\" THEN <<"\\", s[1]>> ELSE <<s[1]>>)
         \o EscapeQ(Tail(s))

Quote(s) == <<"\"">> \o EscapeQ(s) \o <<"\"">>

----------------------------------------------------------------------------
(* src/mcp/tools.go: sanitizeErrorMessage *)

\* The bearer-token branch: only parts[1], the text after the first marker,
\* is rewritten.
RedactBearer(errMsg) ==
    IF ~Contains(errMsg, BearerMarker) THEN errMsg
    ELSE LET parts == Split(errMsg, BearerMarker)
         IN  IF Len(parts) > 1
             THEN LET tokenEnd == IndexAny(parts[2], BoundaryChars)
                      p1 == IF tokenEnd # -1
                            THEN Redacted \o From(parts[2], tokenEnd)
                            ELSE Redacted
                  IN  Join([parts EXCEPT ![2] = p1], BearerMarker)
             ELSE errMsg

\* The end of the URL that starts at `start`: the first offset at or after
\* `from` that is the end of the string or holds a boundary character.
UrlEnd(errMsg, from) ==
    LET cs    == {BoundaryChars[k] : k \in DOMAIN BoundaryChars}
        stops == {e \in from..Len(errMsg) : e = Len(errMsg) \/ errMsg[e + 1] \in cs}
    IN  CHOOSE e \in stops : \A f \in stops : e <= f

\* One iteration of the loop over the two prefixes: the first occurrence of
\* the prefix is replaced, when something follows the prefix.
RedactUrl(errMsg, prefix) ==
    LET idx == Index(errMsg, prefix)
    IN  IF idx = -1 THEN errMsg
        ELSE LET start == idx
                 end   == UrlEnd(errMsg, start + Len(prefix))
             IN  IF end > start + Len(prefix)
                 THEN Upto(errMsg, start) \o UrlRedacted \o From(errMsg, end)
                 ELSE errMsg

RedactUrls(errMsg) ==
    IF Contains(errMsg, HttpMarker)
    THEN RedactUrl(RedactUrl(errMsg, HttpPrefix), HttpsPrefix)
    ELSE errMsg

sanitizeErrorMessage(errMsg) == RedactUrls(RedactBearer(errMsg))

----------------------------------------------------------------------------
(* Program constants. *)

\* tools.go: len(query) > 1000
HandlerMaxQuery == 1000
\* service.go: const maxQueryLength = 1000
maxQueryLength == 1000
\* the clamp of count, in the Handler and in Search
MinCount == 1
MaxCount == 50
\* tools.go: count := 10
DefaultCount == 10
\* service.go: rate.NewLimiter(rate.Limit(10), 20): the burst
Burst == 20
\* service.go: io.LimitReader(resp.Body, 10*1024*1024)
BodyLimit == 10485760
\* net/http: http.StatusOK
StatusOK == 200

(* Bounds of the model. *)

\* the most results a provider response of the model carries
MaxResults == 2
\* the most reservations of other callers that may be queued on the limiter
MaxBacklog == 1

----------------------------------------------------------------------------
(* src/search/service.go: BochaService.Search, the parts that are pure. *)

\* An error value: its Error() text and what made the call fail.
Err(msg, cause) == [msg |-> msg, cause |-> cause]
NoErr == Err(<<>>, "nil")

\* ctx.Err().Error()
CtxErrText(ctxErr) ==
    IF ctxErr = "DeadlineExceeded" THEN TextDeadlineExceeded ELSE TextCanceled

\* What a context error makes a call fail of.
CtxCause(ctxErr) ==
    IF ctxErr = "DeadlineExceeded" THEN "deadline" ELSE "canceled"

\* sanitizeQuery: the query cut to its first maxQueryLength bytes.
sanitizeQuery(query) ==
    IF Len(query) > maxQueryLength THEN Upto(query, maxQueryLength) ELSE query

Freshnesses == {FNoLimit, FDay, FWeek, FMonth, FOneYear}

\* The freshness test of Search.
SearchFreshnessOk(freshness) == freshness = <<>> \/ freshness \in Freshnesses

\* A mutant of Clamp: the upper end is not enforced.
Clamp_NoUpperEnd(count) == IF count < MinCount THEN MinCount ELSE count

\* The clamp of count, as Search and the Handler both write it.
Clamp(count) ==
    IF count < MinCount THEN MinCount
    ELSE IF count > MaxCount THEN MaxCount
    ELSE count

\* A mutant of SearchValidate: the freshness is not tested.
SearchValidate_QueryOnly(c) ==
    IF c.query = <<>> THEN Err(ErrEmptyQuery, "invalidArg") ELSE NoErr

\* Search's validation, after the limiter has let the call through: the
\* error it returns, or NoErr.
SearchValidate(c) ==
    IF c.query = <<>> THEN Err(ErrEmptyQuery, "invalidArg")
    ELSE IF ~SearchFreshnessOk(c.freshness)
    THEN Err(ErrInvalidFreshnessPrefix \o Quote(c.freshness)
             \o ErrInvalidFreshnessSuffix, "invalidArg")
    ELSE NoErr

\* The bytes of the model that begin a three-byte UTF-8 character, and those
\* that continue one.  Every other byte of the model is ASCII.
Lead3 == {"xE4", "xEF"}
Cont == {"xB8", "xAD", "xBF", "xBD"}

\* U+FFFD, the replacement character, in UTF-8.
Replacement == <<"xEF", "xBF", "xBD">>

\* A three-byte character begins at byte i of s.
StartsChar(s, i) ==
    /\ i >= 1 /\ i + 2 <= Len(s)
    /\ s[i] \in Lead3 /\ s[i + 1] \in Cont /\ s[i + 2] \in Cont

\* The bytes of s that are part of no UTF-8 character: a lead byte without
\* its two continuation bytes, a continuation byte without its lead byte.
InvalidBytes(s) ==
    {i \in 1..Len(s) :
        \/ s[i] \in Lead3 /\ ~StartsChar(s, i)
        \/ s[i] \in Cont /\ ~StartsChar(s, i - 1) /\ ~StartsChar(s, i - 2)}

\* s with each byte of the set bad replaced by the replacement character.
RECURSIVE ReplaceBytes(_, _)
ReplaceBytes(s, bad) ==
    IF bad = {} THEN s
    ELSE LET b == CHOOSE i \in bad : \A j \in bad : j <= i
         IN  ReplaceBytes(Upto(s, b - 1), bad \ {b}) \o Replacement \o From(s, b)

\* The string the provider decodes from json.Marshal's encoding of s:
\* encoding/json coerces a string to valid UTF-8, one replacement character
\* for each invalid byte.
JsonString(s) == ReplaceBytes(s, InvalidBytes(s))

\* A mutant of BuildRequest: the count goes out as the caller gave it.
BuildRequest_CountAsGiven(config, c) ==
    [method      |-> MethodPost,
     url         |-> config.apiBaseURL,
     contentType |-> ContentTypeJson,
     auth        |-> BearerMarker \o config.apiKey,
     userAgent   |-> UserAgent,
     body        |-> [query     |-> JsonString(sanitizeQuery(c.query)),
                      freshness |-> JsonString(c.freshness),
                      count     |-> c.count,
                      summary   |-> c.summary]]

\* The HTTP request Search builds for a call that passed validation.  The
\* body is json.Marshal of a WebSearchRequest, which has these four members.
BuildRequest(config, c) ==
    [method      |-> MethodPost,
     url         |-> config.apiBaseURL,
     contentType |-> ContentTypeJson,
     auth        |-> BearerMarker \o config.apiKey,
     userAgent   |-> UserAgent,
     body        |-> [query     |-> JsonString(sanitizeQuery(c.query)),
                      freshness |-> JsonString(c.freshness),
                      count     |-> Clamp(c.count),
                      summary   |-> c.summary]]

NoRequest ==
    [method |-> <<>>, url |-> <<>>, contentType |-> <<>>, auth |-> <<>>,
     userAgent |-> <<>>,
     body |-> [query |-> <<>>, freshness |-> <<>>, count |-> 0, summary |-> FALSE]]

\* A *WebSearchResponse; isNil for the nil pointer, valueNil for a nil
\* Data.WebPages.Value.
Response(webSearchURL, value, valueNil, images) ==
    [isNil |-> FALSE, webSearchURL |-> webSearchURL, value |-> value,
     valueNil |-> valueNil, images |-> images]
NilResponse ==
    [isNil |-> TRUE, webSearchURL |-> <<>>, value |-> <<>>, valueNil |-> TRUE,
     images |-> <<>>]

\* What Search returns.
Return(resp, err) == [resp |-> resp, err |-> err]
NoReturn == Return(NilResponse, NoErr)

\* io.ReadAll(io.LimitReader(resp.Body, BodyLimit)): the number of bytes read.
\* The reader stops at the limit without an error.
ReadLen(body) == IF body.len > BodyLimit THEN BodyLimit ELSE body.len

\* json.Unmarshal of the bytes read.  The body's JSON document takes its
\* first docLen bytes (white space fills the rest): the bytes read decode
\* when the document is well formed and was read whole.
DecodeError(body) ==
    IF body.docLen > ReadLen(body) THEN TextJsonEnd
    ELSE IF ~body.valid THEN TextJsonInvalid
    ELSE <<>>

\* A mutant of ErrorResponse: the error without a provider message quotes
\* the body.
ErrorResponse_QuotesBody(status, body) ==
    IF DecodeError(body) = <<>> /\ body.errT = "string" /\ body.errS # <<>>
    THEN Return(NilResponse,
                Err(ErrApiPrefix \o Itoa(status) \o ErrApiMid \o body.errS,
                    "provider"))
    ELSE Return(NilResponse,
                Err(ErrStatusPrefix \o Itoa(status) \o ErrApiMid \o body.detail,
                    "provider"))

\* Search for a status other than 200.  errorResp is a struct with the one
\* string member "error": the decode fails on a malformed document and on
\* an "error" that is no string.
ErrorResponse(status, body) ==
    IF DecodeError(body) = <<>> /\ body.errT = "string" /\ body.errS # <<>>
    THEN Return(NilResponse,
                Err(ErrApiPrefix \o Itoa(status) \o ErrApiMid \o body.errS,
                    "provider"))
    ELSE Return(NilResponse, Err(ErrStatusPrefix \o Itoa(status), "provider"))

\* A mutant of OkResponse: Data.WebPages.Value is not tested, and a
\* response whose results collection is nil is returned.
OkResponse_ValueUntested(body) ==
    IF DecodeError(body) # <<>>
    THEN Return(NilResponse, Err(ErrParsePrefix \o DecodeError(body), "decode"))
    ELSE IF body.valueT = "number"
    THEN Return(NilResponse, Err(ErrParsePrefix \o TextJsonType, "decode"))
    ELSE Return(Response(body.webSearchURL, body.value, body.valueT # "array", body.images),
                NoErr)

\* A mutant of OkResponse: a results collection of no elements is taken
\* for a missing one.
OkResponse_EmptyIsMissing(body) ==
    IF DecodeError(body) # <<>>
    THEN Return(NilResponse, Err(ErrParsePrefix \o DecodeError(body), "decode"))
    ELSE IF body.valueT = "number"
    THEN Return(NilResponse, Err(ErrParsePrefix \o TextJsonType, "decode"))
    ELSE IF body.valueT # "array" \/ Len(body.value) = 0
    THEN Return(NilResponse, Err(ErrEmptyResponse, "empty"))
    ELSE Return(Response(body.webSearchURL, body.value, FALSE, body.images), NoErr)

\* Search for status 200: the decode into a WebSearchResponse, which fails
\* on a malformed document and on a value of the wrong type, and the test of
\* Data.WebPages.Value, which is nil when the member is absent or null.
OkResponse(body) ==
    IF DecodeError(body) # <<>>
    THEN Return(NilResponse, Err(ErrParsePrefix \o DecodeError(body), "decode"))
    ELSE IF body.valueT = "number"
    THEN Return(NilResponse, Err(ErrParsePrefix \o TextJsonType, "decode"))
    ELSE IF body.valueT # "array"
    THEN Return(NilResponse, Err(ErrEmptyResponse, "empty"))
    ELSE Return(Response(body.webSearchURL, body.value, FALSE, body.images), NoErr)

\* Search from the response's status and body to its return.
ProcessResponse(status, body) ==
    IF status # StatusOK THEN ErrorResponse(status, body) ELSE OkResponse(body)

\* http.Client.Do failing: a *url.Error, whose text names the method and the URL.
TransportError(config, text, cause) ==
    Err(ErrSendPrefix \o PostQuote \o config.apiBaseURL \o QuoteColon \o text, cause)

\* io.ReadAll failing.
ReadError(text, cause) == Err(ErrReadPrefix \o text, cause)

----------------------------------------------------------------------------
(* String literals of the Handler's text. *)

\* 'Past 24 hours'
LblDay == <<"P","a","s","t"," ","2","4"," ","h","o","u","r","s">>
\* 'Past week'
LblWeek == <<"P","a","s","t"," ","w","e","e","k">>
\* 'Past month'
LblMonth == <<"P","a","s","t"," ","m","o","n","t","h">>
\* 'Past year'
LblYear == <<"P","a","s","t"," ","y","e","a","r">>
\* 'No time limit'
LblNoLimit == <<"N","o"," ","t","i","m","e"," ","l","i","m","i","t">>
\* 'Search Query: "'
OutQuery == <<"S","e","a","r","c","h"," ","Q","u","e","r","y",":"," ","\"">>
\* '"\n'
OutQuoteNl == <<"\"","\n">>
\* 'Freshness: '
OutFreshness == <<"F","r","e","s","h","n","e","s","s",":"," ">>
\* '\n'
OutNl == <<"\n">>
\* 'Results: '
OutResults == <<"R","e","s","u","l","t","s",":"," ">>
\* '\n\n'
OutNlNl == <<"\n","\n">>
\* 'Search URL:\n'
OutSearchUrl == <<"S","e","a","r","c","h"," ","U","R","L",":","\n">>
\* 'Search Results:\n'
OutSearchResults == <<"S","e","a","r","c","h"," ","R","e","s","u","l","t","s",":","\n">>
\* '==============\n\n'
OutRule == <<"=","=","=","=","=","=","=","=","=","=","=","=","=","=","\n","\n">>
\* '. '
OutDot == <<"."," ">>
\* '   URL: '
OutUrl == <<" "," "," ","U","R","L",":"," ">>
\* '   Favicon: '
OutFavicon == <<" "," "," ","F","a","v","i","c","o","n",":"," ">>
\* '   Site: '
OutSite == <<" "," "," ","S","i","t","e",":"," ">>
\* '   Description: '
OutDescription == <<" "," "," ","D","e","s","c","r","i","p","t","i","o","n",":"," ">>
\* '   Date: '
OutDate == <<" "," "," ","D","a","t","e",":"," ">>
\* 'Image Results:\n'
OutImageResults == <<"I","m","a","g","e"," ","R","e","s","u","l","t","s",":","\n">>
\* '. Image\n'
OutImage == <<"."," ","I","m","a","g","e","\n">>
\* '   Thumbnail: '
OutThumbnail == <<" "," "," ","T","h","u","m","b","n","a","i","l",":"," ">>
\* '   Host Page: '
OutHostPage == <<" "," "," ","H","o","s","t"," ","P","a","g","e",":"," ">>
\* '   Dimensions: '
OutDimensions == <<" "," "," ","D","i","m","e","n","s","i","o","n","s",":"," ">>
\* 'x'
OutX == <<"x">>
\* ', '
OutCommaSp == <<","," ">>
\* ' '
OutSp == <<" ">>
\* time: the long month names
MonthNames ==
    <<<<"J","a","n","u","a","r","y">>,
      <<"F","e","b","r","u","a","r","y">>,
      <<"M","a","r","c","h">>,
      <<"A","p","r","i","l">>,
      <<"M","a","y">>,
      <<"J","u","n","e">>,
      <<"J","u","l","y">>,
      <<"A","u","g","u","s","t">>,
      <<"S","e","p","t","e","m","b","e","r">>,
      <<"O","c","t","o","b","e","r">>,
      <<"N","o","v","e","m","b","e","r">>,
      <<"D","e","c","e","m","b","e","r">>>>

----------------------------------------------------------------------------
(* src/mcp/tools.go: formatFreshness and formatDate *)

formatFreshness(freshness) ==
    IF freshness = FDay THEN LblDay
    ELSE IF freshness = FWeek THEN LblWeek
    ELSE IF freshness = FMonth THEN LblMonth
    ELSE IF freshness = FOneYear THEN LblYear
    ELSE LblNoLimit

IsDigit(s, i) == i < Len(s) /\ \E k \in 1..10 : Digits[k] = s[i + 1]
DigitVal(c) == (CHOOSE k \in 1..10 : Digits[k] = c) - 1

\* time.Parse's fixed-width number: n digits at offset i of s, or -1.
RECURSIVE FixedNum(_, _, _)
FixedNum(s, i, n) ==
    IF n = 0 THEN 0
    ELSE IF ~IsDigit(s, i + n - 1) THEN -1
    ELSE LET rest == FixedNum(s, i, n - 1)
         IN  IF rest = -1 THEN -1 ELSE rest * 10 + DigitVal(s[i + n])

IsLeap(y) == (y % 4 = 0) /\ ((y % 100 # 0) \/ (y % 400 = 0))

DaysIn(m, y) ==
    IF m = 2 THEN (IF IsLeap(y) THEN 29 ELSE 28)
    ELSE IF m \in {4, 6, 9, 11} THEN 30
    ELSE 31

NoDate == [ok |-> FALSE, y |-> 0, m |-> 0, d |-> 0, next |-> 0]

\* The layout prefix "2006-01-02": the date, and the offset after it.
ParseYMD(s) ==
    LET y == FixedNum(s, 0, 4)
        m == FixedNum(s, 5, 2)
        d == FixedNum(s, 8, 2)
    IN  IF Len(s) >= 10 /\ y # -1 /\ s[5] = "-" /\ m # -1 /\ s[8] = "-" /\ d # -1
        THEN [ok |-> TRUE, y |-> y, m |-> m, d |-> d, next |-> 10]
        ELSE NoDate

\* The date is in range: time.Parse rejects a month or a day out of range.
DateInRange(p) == p.m \in 1..12 /\ p.d >= 1 /\ p.d <= DaysIn(p.m, p.y)

\* The layout part "T15:04:05" at offset i, with the fractional second
\* time.Parse accepts after the seconds: the offset after it, or -1.
ParseClock(s, i) ==
    LET hLen == IF IsDigit(s, i + 1) /\ IsDigit(s, i + 2) THEN 2 ELSE 1
        h    == FixedNum(s, i + 1, hLen)
        j    == i + 1 + hLen
        mi   == FixedNum(s, j + 1, 2)
        se   == FixedNum(s, j + 4, 2)
        k    == j + 6
        fracs == {e \in (k + 2)..Len(s) :
                     /\ \A x \in (k + 1)..(e - 1) : IsDigit(s, x)
                     /\ ~IsDigit(s, e)}
    IN  IF /\ i < Len(s) /\ s[i + 1] = "T"
           /\ h # -1 /\ h < 24
           /\ j < Len(s) /\ s[j + 1] = ":" /\ mi # -1 /\ mi < 60
           /\ j + 3 < Len(s) /\ s[j + 4] = ":" /\ se # -1 /\ se < 60
        THEN IF k + 1 < Len(s) /\ s[k + 1] \in {".", ","} /\ IsDigit(s, k + 1)
             THEN CHOOSE e \in fracs : \A f \in fracs : e <= f
             ELSE k
        ELSE -1

\* The layout part "Z07:00" at offset i: the offset after it, or -1.
ParseZone(s, i) ==
    IF i < Len(s) /\ s[i + 1] = "Z" THEN i + 1
    ELSE IF /\ i + 6 <= Len(s) /\ s[i + 1] \in {"+", "-"}
            /\ FixedNum(s, i + 1, 2) # -1 /\ s[i + 4] = ":"
            /\ FixedNum(s, i + 4, 2) # -1
    THEN i + 6
    ELSE -1

\* time.Parse(time.RFC3339, s)
ParseRFC3339(s) ==
    LET p == ParseYMD(s)
        c == IF p.ok THEN ParseClock(s, p.next) ELSE -1
        z == IF c # -1 THEN ParseZone(s, c) ELSE -1
    IN  IF p.ok /\ z = Len(s) /\ DateInRange(p) THEN p ELSE NoDate

\* time.Parse("2006-01-02T15:04:05Z", s)
ParseZulu(s) ==
    LET p == ParseYMD(s)
        c == IF p.ok THEN ParseClock(s, p.next) ELSE -1
    IN  IF p.ok /\ c # -1 /\ c + 1 = Len(s) /\ s[c + 1] = "Z" /\ DateInRange(p)
        THEN p ELSE NoDate

\* time.Parse("2006-01-02", s)
ParseDay(s) ==
    LET p == ParseYMD(s)
    IN  IF p.ok /\ p.next = Len(s) /\ DateInRange(p) THEN p ELSE NoDate

\* %04d of the year
Year4(y) ==
    (IF y < 1000 THEN <<"0">> ELSE <<>>) \o (IF y < 100 THEN <<"0">> ELSE <<>>)
    \o (IF y < 10 THEN <<"0">> ELSE <<>>) \o Itoa(y)

\* t.Format("January 2, 2006")
LongDate(p) == MonthNames[p.m] \o OutSp \o Itoa(p.d) \o OutCommaSp \o Year4(p.y)

\* A mutant of formatDate: a string no layout parses loses its last byte.
formatDate_CutsUnparsed(dateStr) ==
    IF ParseRFC3339(dateStr).ok THEN LongDate(ParseRFC3339(dateStr))
    ELSE IF ParseZulu(dateStr).ok THEN LongDate(ParseZulu(dateStr))
    ELSE IF ParseDay(dateStr).ok THEN LongDate(ParseDay(dateStr))
    ELSE IF dateStr = <<>> THEN dateStr
    ELSE Upto(dateStr, Len(dateStr) - 1)

formatDate(dateStr) ==
    IF ParseRFC3339(dateStr).ok THEN LongDate(ParseRFC3339(dateStr))
    ELSE IF ParseZulu(dateStr).ok THEN LongDate(ParseZulu(dateStr))
    ELSE IF ParseDay(dateStr).ok THEN LongDate(ParseDay(dateStr))
    ELSE dateStr

----------------------------------------------------------------------------
(* src/mcp/tools.go: SearchTool.Handler, the parts that are pure. *)

\* A value of the argument map: its dynamic type t, and the value as a
\* string (s), as a number in tenths (n) or as a boolean (b).
Absent    == [t |-> "absent", s |-> <<>>, n |-> 0, b |-> FALSE]
Null      == [t |-> "null",   s |-> <<>>, n |-> 0, b |-> FALSE]
Str(s)    == [t |-> "string", s |-> s,    n |-> 0, b |-> FALSE]
Num(n10)  == [t |-> "number", s |-> <<>>, n |-> n10, b |-> FALSE]
\* a float64 no int can represent
HugeNum   == [t |-> "huge",   s |-> <<>>, n |-> 0, b |-> FALSE]
Bool(b)   == [t |-> "bool",   s |-> <<>>, n |-> 0, b |-> b]

\* int(c) of a float64: the fraction is cut off; the conversion of a value
\* no int can represent yields an implementation-dependent int.
IntOf(v) ==
    IF v.t = "huge" THEN {-(2^30), 0, 2^30}
    ELSE IF v.n >= 0 THEN {v.n \div 10}
    ELSE {-((-v.n) \div 10)}

\* A tool result.
ToolResultError(text) == [isNil |-> FALSE, isError |-> TRUE, text |-> text]
ToolResultText(text)  == [isNil |-> FALSE, isError |-> FALSE, text |-> text]
NoResult == [isNil |-> TRUE, isError |-> FALSE, text |-> <<>>]

\* The typed arguments of a Search call.
Call(query, freshness, count, summary) ==
    [query |-> query, freshness |-> freshness, count |-> count, summary |-> summary]
NoCall == Call(<<>>, <<>>, 0, FALSE)

\* A mutant of ValidateArgs: the empty query is let through.
ValidateArgs_EmptyQueryPasses(a) ==
    IF a.query.t # "string"
    THEN ToolResultError(ErrQueryRequired)
    ELSE IF Len(a.query.s) > HandlerMaxQuery
    THEN ToolResultError(ErrQueryTooLong)
    ELSE IF /\ a.freshness.t = "string" /\ a.freshness.s # <<>>
            /\ a.freshness.s \notin Freshnesses
    THEN ToolResultError(ErrInvalidFreshnessPrefix \o Quote(a.freshness.s)
                         \o ErrInvalidFreshnessSuffix)
    ELSE NoResult

\* The Handler's validation of the argument map: the error result it
\* returns, or NoResult when the arguments pass.
ValidateArgs(a) ==
    IF a.query.t # "string" \/ a.query.s = <<>>
    THEN ToolResultError(ErrQueryRequired)
    ELSE IF Len(a.query.s) > HandlerMaxQuery
    THEN ToolResultError(ErrQueryTooLong)
    ELSE IF /\ a.freshness.t = "string" /\ a.freshness.s # <<>>
            /\ a.freshness.s \notin Freshnesses
    THEN ToolResultError(ErrInvalidFreshnessPrefix \o Quote(a.freshness.s)
                         \o ErrInvalidFreshnessSuffix)
    ELSE NoResult

\* A mutant of FreshnessOf: the empty string is passed on.
FreshnessOf_EmptyPassedOn(a) ==
    IF a.freshness.t = "string" THEN a.freshness.s ELSE FNoLimit

\* The freshness the Handler passes on.
FreshnessOf(a) ==
    IF a.freshness.t = "string" /\ a.freshness.s # <<>>
    THEN a.freshness.s ELSE FNoLimit

\* The counts the Handler may pass on (one, but for a float64 no int represents).
CountsOf(a) ==
    IF a.count.t \in {"number", "huge"}
    THEN {Clamp(c) : c \in IntOf(a.count)}
    ELSE {DefaultCount}

\* A mutant of SummaryOf: any value that is present and no boolean counts
\* as true.
SummaryOf_PresentIsTrue(a) ==
    IF a.summary.t = "bool" THEN a.summary.b ELSE a.summary.t # "absent"

\* The summary flag the Handler passes on.
SummaryOf(a) == IF a.summary.t = "bool" THEN a.summary.b ELSE FALSE

\* The Search calls the Handler may make for arguments that pass.
CallsOf(a) ==
    {Call(a.query.s, FreshnessOf(a), c, SummaryOf(a)) : c \in CountsOf(a)}

\* The text of one web result, numbered i.
RenderResult(i, r) ==
    Itoa(i) \o OutDot \o r.name \o OutNl
    \o OutUrl \o r.url \o OutNl
    \o (IF r.siteIcon # <<>> THEN OutFavicon \o r.siteIcon \o OutNl ELSE <<>>)
    \o (IF r.siteName # <<>> THEN OutSite \o r.siteName \o OutNl ELSE <<>>)
    \o (IF r.snippet # <<>> THEN OutDescription \o r.snippet \o OutNl ELSE <<>>)
    \o (IF r.dateLastCrawled # <<>>
        THEN OutDate \o formatDate(r.dateLastCrawled) \o OutNl ELSE <<>>)
    \o OutNl

\* A mutant of RenderResults: the loop ends after the first result.
RenderResults_FirstOnly(value, i) ==
    IF Len(value) = 0 THEN <<>> ELSE RenderResult(1, value[1])

RECURSIVE RenderResults(_, _)
RenderResults(value, i) ==
    IF i > Len(value) THEN <<>>
    ELSE RenderResult(i, value[i]) \o RenderResults(value, i + 1)

\* The text of one image result, numbered i.
RenderImage(i, im) ==
    Itoa(i) \o OutImage
    \o OutUrl \o im.contentURL \o OutNl
    \o OutThumbnail \o im.thumbnailURL \o OutNl
    \o OutHostPage \o im.hostPageURL \o OutNl
    \o OutDimensions \o Itoa(im.width) \o OutX \o Itoa(im.height) \o OutNl
    \o OutNl

RECURSIVE RenderImages(_, _)
RenderImages(images, i) ==
    IF i > Len(images) THEN <<>>
    ELSE RenderImage(i, images[i]) \o RenderImages(images, i + 1)

\* The text the Handler builds from a response.
RenderResponse(c, response) ==
    OutQuery \o c.query \o OutQuoteNl
    \o OutFreshness \o formatFreshness(c.freshness) \o OutNl
    \o OutResults \o Itoa(Len(response.value)) \o OutNlNl
    \o (IF c.summary /\ response.webSearchURL # <<>>
        THEN OutSearchUrl \o response.webSearchURL \o OutNlNl ELSE <<>>)
    \o OutSearchResults \o OutRule
    \o RenderResults(response.value, 1)
    \o (IF Len(response.images) > 0
        THEN OutImageResults \o OutRule \o RenderImages(response.images, 1)
        ELSE <<>>)

\* A mutant of HandleReturn: the timed-out message is no error result.
HandleReturn_TimeoutNotFlagged(c, r, ctxErrNow) ==
    IF r.err # NoErr
    THEN IF ctxErrNow = "DeadlineExceeded"
         THEN ToolResultText(MsgTimedOut)
         ELSE ToolResultError(MsgSearchFailed \o sanitizeErrorMessage(r.err.msg))
    ELSE ToolResultText(RenderResponse(c, r.resp))

\* The Handler's result from what Search returned and ctx.Err() at the
\* moment the Handler looks at it.
HandleReturn(c, r, ctxErrNow) ==
    IF r.err # NoErr
    THEN IF ctxErrNow = "DeadlineExceeded"
         THEN ToolResultError(MsgTimedOut)
         ELSE ToolResultError(MsgSearchFailed \o sanitizeErrorMessage(r.err.msg))
    ELSE ToolResultText(RenderResponse(c, r.resp))

----------------------------------------------------------------------------
(* The strings of the inputs. *)

\* 'sk-k1'
ApiKey == <<"s","k","-","k","1">>
\* 'https://a.b/s'
UrlPlain == <<"h","t","t","p","s",":","/","/","a",".","b","/","s">>
\* 'http://a.b:8/s'
UrlPort == <<"h","t","t","p",":","/","/","a",".","b",":","8","/","s">>
\* 'boom'
TextBoom == <<"b","o","o","m">>
\* 'invalid api key '
TextInvalidKey == <<"i","n","v","a","l","i","d"," ","a","p","i"," ","k","e","y"," ">>
\* 'see '
TextSee == <<"s","e","e"," ">>
\* ' and '
TextAnd == <<" ","a","n","d"," ">>
\* 'DETAIL'
TextDetail == <<"D","E","T","A","I","L">>
\* 'ai news'
QShort == <<"a","i"," ","n","e","w","s">>
\* 'Result A'
TitleA == <<"R","e","s","u","l","t"," ","A">>
\* 'Result B'
TitleB == <<"R","e","s","u","l","t"," ","B">>
\* 'https://r.a/1'
UrlA == <<"h","t","t","p","s",":","/","/","r",".","a","/","1">>
\* 'https://r.b/2'
UrlB == <<"h","t","t","p","s",":","/","/","r",".","b","/","2">>
\* 'about A'
SnippetA == <<"a","b","o","u","t"," ","A">>
\* 'Site B'
SiteB == <<"S","i","t","e"," ","B">>
\* 'https://s.u/q'
SearchUrlText == <<"h","t","t","p","s",":","/","/","s",".","u","/","q">>
\* 'hour'
FHour == <<"h","o","u","r">>
\* 'Day'
FUpperDay == <<"D","a","y">>
\* '5'
TextFive == <<"5">>
\* '2024-03-05T10:20:30Z'
DateIso == <<"2","0","2","4","-","0","3","-","0","5","T","1","0",":","2","0",":","3","0","Z">>
\* '2024-02-29'
DateDay == <<"2","0","2","4","-","0","2","-","2","9">>
\* 'yesterday'
DateBad == <<"y","e","s","t","e","r","d","a","y">>
\* '2023-02-29'
DayNoLeap == <<"2","0","2","3","-","0","2","-","2","9">>
\* '2024-13-01'
DayMonth13 == <<"2","0","2","4","-","1","3","-","0","1">>
\* '0001-01-01'
DayFirst == <<"0","0","0","1","-","0","1","-","0","1">>
\* '9999-12-31'
DayLast == <<"9","9","9","9","-","1","2","-","3","1">>
\* '2024-3-5'
DayShort == <<"2","0","2","4","-","3","-","5">>
\* '2024-03-05'
DayMarch == <<"2","0","2","4","-","0","3","-","0","5">>
\* 'T10:20:30Z'
ClockZulu == <<"T","1","0",":","2","0",":","3","0","Z">>
\* 'T10:20:30+08:00'
ClockOffset == <<"T","1","0",":","2","0",":","3","0","+","0","8",":","0","0">>
\* 'T10:20:30.5Z'
ClockFraction == <<"T","1","0",":","2","0",":","3","0",".","5","Z">>
\* 'T25:00:00Z'
ClockHour25 == <<"T","2","5",":","0","0",":","0","0","Z">>
\* 'T10:20:30'
ClockNoZone == <<"T","1","0",":","2","0",":","3","0">>
\* 'March 5, 2024'
DateLong == <<"M","a","r","c","h"," ","5",","," ","2","0","2","4">>
\* 'https://i.m/g'
ImgUrl == <<"h","t","t","p","s",":","/","/","i",".","m","/","g">>

----------------------------------------------------------------------------
(* The inputs: configurations, argument maps, provider responses. *)

\* config.Config as NewBochaServiceWithConfig reads it: the key, the base
\* URL, and the HTTP client's Timeout in milliseconds.
Configs ==
    {[apiKey |-> ApiKey, apiBaseURL |-> u, timeout |-> 10000] : u \in {UrlPlain, UrlPort}}

\* n bytes, all the ASCII letter c.
Ascii(c, n) == [i \in 1..n |-> c]

\* n three-byte characters (U+4E2D), 3n bytes.
Cjk(n) == [i \in 1..(3 * n) |-> <<"xE4", "xB8", "xAD">>[((i - 1) % 3) + 1]]

\* The number of characters of a UTF-8 string: the bytes that continue no
\* character.
Chars(s) == Cardinality({i \in 1..Len(s) : s[i] \notin {"xB8", "xAD"}})

QueryValues ==
    {Absent, Null, Num(50), Str(<<>>), Str(QShort),
     Str(Ascii("a", HandlerMaxQuery)), Str(Ascii("a", HandlerMaxQuery + 1)),
     Str(Cjk(333)), Str(Cjk(334))}

FreshnessValues ==
    {Absent, Num(10), Str(<<>>), Str(FNoLimit), Str(FDay), Str(FWeek),
     Str(FMonth), Str(FOneYear), Str(FHour), Str(FUpperDay)}

CountValues ==
    {Absent, Null, Str(TextFive), Num(-15), Num(0), Num(5), Num(50), Num(77),
     Num(100), Num(500), Num(509), Num(510), HugeNum}

SummaryValues == {Absent, Bool(TRUE), Bool(FALSE), Str(TextFive), Num(10)}

Args(q, f, c, s) == [query |-> q, freshness |-> f, count |-> c, summary |-> s]

BaseArgs == Args(Str(QShort), Str(FDay), Num(50), Bool(TRUE))

\* The arguments in which a differs from BaseArgs.
Deviation(a) ==
    {k \in {"query", "freshness", "count", "summary"} : a[k] # BaseArgs[k]}

\* The argument maps of the model: every pair of values of the two
\* arguments the Handler validates, with the other two as in BaseArgs, and
\* every value of each of the two it never rejects, with the rest as in
\* BaseArgs.
ArgMaps ==
    {a \in [query : QueryValues, freshness : FreshnessValues,
            count : CountValues, summary : SummaryValues] :
        \/ Deviation(a) \subseteq {"query", "freshness"}
        \/ Deviation(a) \subseteq {"count"}
        \/ Deviation(a) \subseteq {"summary"}}

\* No argument map: Search was not called by the Handler.
NoArgs == Args(Absent, Absent, Absent, Absent)

\* A query of maxQueryLength + 2 bytes whose last bytes differ from the rest.
QLong == Ascii("a", maxQueryLength) \o <<"b", "c">>

DirectQueries ==
    {<<>>, QShort, Ascii("a", maxQueryLength), QLong, Cjk(333), Cjk(334)}

DirectFreshnesses == {<<>>, FNoLimit, FDay, FWeek, FMonth, FOneYear, FHour, FUpperDay}

DirectCounts == {-3, 0, 1, 10, 50, 51, 1000}

BaseCall == Call(QShort, FDay, 10, TRUE)

\* The calls other code makes to Search: the empty and the short query with
\* every freshness, every query, every count and both summary flags, with
\* the rest as in BaseCall.
DirectCalls ==
    {Call(q, f, BaseCall.count, BaseCall.summary) :
        q \in {<<>>, QShort}, f \in DirectFreshnesses}
    \cup {Call(q, BaseCall.freshness, BaseCall.count, BaseCall.summary) :
             q \in DirectQueries}
    \cup {Call(BaseCall.query, BaseCall.freshness, c, BaseCall.summary) :
             c \in DirectCounts}
    \cup {Call(BaseCall.query, BaseCall.freshness, BaseCall.count, s) :
             s \in BOOLEAN}

\* A WebPageResult.
Result(name, url, snippet, siteName, siteIcon, date) ==
    [name |-> name, url |-> url, snippet |-> snippet, siteName |-> siteName,
     siteIcon |-> siteIcon, dateLastCrawled |-> date]

ResultPool ==
    <<Result(TitleA, UrlA, SnippetA, <<>>, <<>>, DateIso),
      Result(TitleB, UrlB, <<>>, SiteB, ImgUrl, DateBad),
      Result(TitleA, UrlB, <<>>, <<>>, <<>>, DateDay)>>

\* The first n results the provider returns.
Results(n) == [i \in 1..n |-> ResultPool[((i - 1) % Len(ResultPool)) + 1]]

\* An ImageResult.
Image(contentURL, thumbnailURL, hostPageURL, width, height) ==
    [contentURL |-> contentURL, thumbnailURL |-> thumbnailURL,
     hostPageURL |-> hostPageURL, width |-> width, height |-> height]

\* A response body: len bytes, of which the first docLen are the JSON
\* document and the rest white space.  valid: the document is well-formed
\* JSON.  errT, errS: the type and the text of its "error" member.  valueT,
\* value: the type and the elements of data.webPages.value.  detail: text
\* the body holds elsewhere.
Body(len, docLen, valid, errT, errS, valueT, value, webSearchURL, images) ==
    [len |-> len, docLen |-> docLen, valid |-> valid, errT |-> errT,
     errS |-> errS, valueT |-> valueT, value |-> value,
     webSearchURL |-> webSearchURL, images |-> images, detail |-> TextDetail]

\* The "error" texts a provider may send: plain, or reflecting the
\* request's credentials and URL.
ErrorTexts(config) ==
    {TextBoom,
     TextInvalidKey \o config.apiKey,
     BearerMarker \o config.apiKey,
     BearerMarker \o config.apiKey \o TextAnd \o BearerMarker \o config.apiKey,
     TextSee \o config.apiBaseURL,
     config.apiBaseURL \o TextAnd \o config.apiBaseURL}

\* The sizes of a body whose document has d bytes, as <<len, docLen>>: the
\* document alone; white space after it up to the limit and past it; and a
\* document of the limit's size and of one byte more.
Sizes(d) ==
    {<<d, d>>, <<BodyLimit, d>>, <<BodyLimit + 1, d>>,
     <<BodyLimit, BodyLimit>>, <<BodyLimit + 1, BodyLimit + 1>>}

\* The documents of the model, as the arguments of Body after the sizes.
ErrorDocs(config) ==
    {<<TRUE, "string", e, "absent", <<>>, <<>>, <<>>>> : e \in ErrorTexts(config)}
    \cup {<<TRUE, "string", <<>>, "absent", <<>>, <<>>, <<>>>>,
          <<TRUE, "number", <<>>, "absent", <<>>, <<>>, <<>>>>,
          <<TRUE, "absent", <<>>, "absent", <<>>, <<>>, <<>>>>,
          <<FALSE, "absent", <<>>, "absent", <<>>, <<>>, <<>>>>}

ResultDocs ==
    {<<TRUE, "absent", <<>>, "null", <<>>, <<>>, <<>>>>,
     <<TRUE, "absent", <<>>, "number", <<>>, <<>>, <<>>>>,
     <<TRUE, "string", TextBoom, "array", Results(1), <<>>, <<>>>>,
     <<TRUE, "absent", <<>>, "array", Results(1), SearchUrlText,
       <<Image(ImgUrl, ImgUrl, UrlA, 64, 48)>>>>}
    \cup {<<TRUE, "absent", <<>>, "array", Results(n), u, <<>>>> :
             n \in 0..MaxResults, u \in {<<>>, SearchUrlText}}

\* The documents the model sends in every size.
SizedDocs ==
    {<<TRUE, "string", TextBoom, "absent", <<>>, <<>>, <<>>>>,
     <<FALSE, "absent", <<>>, "absent", <<>>, <<>>, <<>>>>,
     <<TRUE, "absent", <<>>, "array", Results(1), <<>>, <<>>>>}

Bodies(config) ==
    {Body(64, 64, d[1], d[2], d[3], d[4], d[5], d[6], d[7]) :
        d \in ErrorDocs(config) \cup ResultDocs}
    \cup {Body(sz[1], sz[2], d[1], d[2], d[3], d[4], d[5], d[6], d[7]) :
             sz \in Sizes(64), d \in SizedDocs}

Statuses == {200, 201, 400, 500}

\* What the provider and the network may do with a request: a response,
\* or a failure of the transport or of the read of the body.
ProviderResponse(kind, status, body, text, cause) ==
    [kind |-> kind, status |-> status, body |-> body, text |-> text, cause |-> cause]
NoBody == Body(0, 0, FALSE, "absent", <<>>, "absent", <<>>, <<>>, <<>>)
NoProviderResponse == ProviderResponse("none", 0, NoBody, <<>>, "nil")

\* The failures of http.Client.Do and of io.ReadAll that do not come from
\* the call's context.
NetworkFailures ==
    {ProviderResponse("sendError", 0, NoBody, TextConnRefused, "transport"),
     ProviderResponse("sendError", 0, NoBody, TextClientTimeout, "clientTimeout"),
     ProviderResponse("readError", 0, NoBody, TextUnexpectedEOF, "transport")}

\* A mutant of ContextFailures: the request does not carry the call's
\* context, and its end leaves the request in flight.
ContextFailures_RequestUnbound(ctxErrNow) == {}

\* The failures the ended context makes: Do and ReadAll return ctx.Err().
ContextFailures(ctxErrNow) ==
    IF ctxErrNow = "nil" THEN {}
    ELSE {ProviderResponse(k, 0, NoBody, CtxErrText(ctxErrNow), CtxCause(ctxErrNow)) :
             k \in {"sendError", "readError"}}

AllResponses(config) ==
    {ProviderResponse("response", s, b, <<>>, "nil") :
        s \in Statuses, b \in Bodies(config)}

FewResponses(config) ==
    {ProviderResponse("response", 200,
                      Body(64, 64, TRUE, "absent", <<>>, "array", Results(MaxResults),
                           SearchUrlText, <<>>), <<>>, "nil"),
     ProviderResponse("response", 500,
                      Body(64, 64, TRUE, "string", TextBoom, "absent", <<>>,
                           <<>>, <<>>), <<>>, "nil")}

\* Status-200 responses Search fails on: a malformed body, and a body
\* without a results collection.
FailedResponses ==
    {ProviderResponse("response", 200,
                      Body(64, 64, FALSE, "absent", <<>>, "absent", <<>>, <<>>, <<>>),
                      <<>>, "nil"),
     ProviderResponse("response", 200,
                      Body(64, 64, TRUE, "absent", <<>>, "absent", <<>>, <<>>, <<>>),
                      <<>>, "nil")}

\* The outcomes of the model for a request: all of them for BaseArgs, a few
\* for the other argument maps and for the calls of other code.
Outcomes(config, a, ctxErrNow) ==
    NetworkFailures \cup ContextFailures(ctxErrNow)
    \cup (IF a = BaseArgs THEN AllResponses(config) ELSE FewResponses(config))
    \cup (IF a = NoArgs THEN FailedResponses ELSE {})

\* Search from the outcome of its request to its return.
SearchReturn(config, o) ==
    IF o.kind = "sendError" THEN Return(NilResponse, TransportError(config, o.text, o.cause))
    ELSE IF o.kind = "readError" THEN Return(NilResponse, ReadError(o.text, o.cause))
    ELSE ProcessResponse(o.status, o.body)

----------------------------------------------------------------------------
(* src/config/config.go: Config.LoadFromFile *)

\* 'https://api.bochaai.com/v1/ai-search'
DefaultBaseURL == <<"h","t","t","p","s",":","/","/","a","p","i",".","b","o","c","h","a","a","i",".","c","o","m","/","v","1","/","a","i","-","s","e","a","r","c","h">>
\* 'Bocha AI Search Server'
DefaultServerName == <<"B","o","c","h","a"," ","A","I"," ","S","e","a","r","c","h"," ","S","e","r","v","e","r">>
\* '1.0.0'
DefaultServerVersion == <<"1",".","0",".","0">>
\* '/'
Separator == <<"/">>
\* '.'
Dot == <<".">>
\* '..'
DotDot == <<".",".">>
\* '/app'
CwdApp == <<"/","a","p","p">>
\* 'c.yaml'
PathInCwd == <<"c",".","y","a","m","l">>
\* 'sub/../c.yaml'
PathViaSub == <<"s","u","b","/",".",".","/","c",".","y","a","m","l">>
\* '/etc/c.yaml'
PathEtc == <<"/","e","t","c","/","c",".","y","a","m","l">>
\* '../etc/c.yaml'
PathUp == <<".",".","/","e","t","c","/","c",".","y","a","m","l">>
\* '/application/c.yaml'
PathSibling == <<"/","a","p","p","l","i","c","a","t","i","o","n","/","c",".","y","a","m","l">>
\* 'sk-f2'
FileKey == <<"s","k","-","f","2">>
\* 'Test Server'
FileName == <<"T","e","s","t"," ","S","e","r","v","e","r">>
\* '2.0.0'
FileVersion == <<"2",".","0",".","0">>
\* '15s'
Text15s == <<"1","5","s">>
\* '500ms'
Text500ms == <<"5","0","0","m","s">>
\* '2m'
Text2m == <<"2","m">>
\* '15'
Text15 == <<"1","5">>
\* 'abc'
TextAbc == <<"a","b","c">>
\* 'ms'
UnitMs == <<"m","s">>
\* 's'
UnitS == <<"s">>
\* 'm'
UnitM == <<"m">>
\* 'h'
UnitH == <<"h">>

\* A Config.  HTTPTimeout is in milliseconds.
Config(key, url, timeout, name, version, timeoutStr) ==
    [BochaAPIKey |-> key, BochaAPIBaseURL |-> url, HTTPTimeout |-> timeout,
     ServerName |-> name, ServerVersion |-> version, HTTPTimeoutStr |-> timeoutStr]

\* config.New with no variable of the environment set.
DefaultConfig ==
    Config(<<>>, DefaultBaseURL, 10000, DefaultServerName, DefaultServerVersion, <<>>)

\* The elements of a path between its separators, cleaned as filepath.Clean
\* does: empty elements and "." go, ".." takes the element before it, and at
\* the root ".." goes.
RECURSIVE CleanParts(_, _, _)
CleanParts(parts, acc, rooted) ==
    IF parts = <<>> THEN acc
    ELSE LET e == Head(parts)
         IN  IF e = <<>> \/ e = Dot THEN CleanParts(Tail(parts), acc, rooted)
             ELSE IF e = DotDot
             THEN IF Len(acc) > 0 /\ acc[Len(acc)] # DotDot
                  THEN CleanParts(Tail(parts), SubSeq(acc, 1, Len(acc) - 1), rooted)
                  ELSE IF rooted THEN CleanParts(Tail(parts), acc, rooted)
                  ELSE CleanParts(Tail(parts), Append(acc, e), rooted)
             ELSE CleanParts(Tail(parts), Append(acc, e), rooted)

\* filepath.IsAbs
IsAbs(path) == path # <<>> /\ Head(path) = Head(Separator)

\* filepath.Clean
Clean(path) ==
    LET body == Join(CleanParts(Split(path, Separator), <<>>, IsAbs(path)), Separator)
    IN  IF IsAbs(path) THEN Separator \o body
        ELSE IF body = <<>> THEN Dot
        ELSE body

\* filepath.Abs, with the working directory it reads.
Abs(cwd, path) ==
    IF IsAbs(path) THEN Clean(path) ELSE Clean(cwd \o Separator \o path)

isPathSafe(path, allowedDir) ==
    \/ Clean(path) = Clean(allowedDir)
    \/ HasPrefix(Clean(path), Clean(allowedDir) \o Separator)

\* The number of decimal digits s begins with.
LeadDigits(s) ==
    Cardinality({k \in 1..Len(s) : \A j \in 1..k : IsDigit(s, j - 1)})

\* time.ParseDuration, for a text that is "0" or digits and one unit, in
\* milliseconds; every other text of the model is refused, as
\* time.ParseDuration refuses it.
ParseDuration(s) ==
    LET n    == LeadDigits(s)
        unit == From(s, n)
        ms   == IF unit = UnitMs THEN 1
                ELSE IF unit = UnitS THEN 1000
                ELSE IF unit = UnitM THEN 60000
                ELSE IF unit = UnitH THEN 3600000
                ELSE 0
    IN  IF s = <<"0">> THEN [ok |-> TRUE, d |-> 0]
        ELSE IF n = 0 \/ ms = 0 THEN [ok |-> FALSE, d |-> 0]
        ELSE [ok |-> TRUE, d |-> FixedNum(s, 0, n) * ms]

\* A YAML sequence, which no string member takes.
YamlSeq == [t |-> "seq", s |-> <<>>, n |-> 0, b |-> FALSE]

\* The YAML document of a file: the values of its five keys.
Doc(key, url, timeout, name, version) ==
    [bocha_api_key |-> key, bocha_api_base_url |-> url, http_timeout |-> timeout,
     server_name |-> name, server_version |-> version]
EmptyDoc == Doc(Absent, Absent, Absent, Absent, Absent)

\* What is at a path: nothing, a directory, a file that is no YAML, or a
\* file with a YAML document.
File(kind, doc) == [kind |-> kind, doc |-> doc]

\* The string member yaml.Unmarshal sets for a value: the text of a
\* string, and the zero value for a key that is absent or null.
YamlText(v) == IF v.t = "string" THEN v.s ELSE <<>>

\* yaml.Unmarshal(data, &fileConfig): it fails on a file that is no YAML
\* and on a sequence where a string is expected.
Unmarshal(file) ==
    IF file.kind # "doc" \/ \E k \in DOMAIN file.doc : file.doc[k].t = "seq"
    THEN [ok |-> FALSE, fileConfig |-> Config(<<>>, <<>>, 0, <<>>, <<>>, <<>>)]
    ELSE [ok |-> TRUE,
          fileConfig |-> Config(YamlText(file.doc.bocha_api_key),
                                YamlText(file.doc.bocha_api_base_url), 0,
                                YamlText(file.doc.server_name),
                                YamlText(file.doc.server_version),
                                YamlText(file.doc.http_timeout))]

\* A mutant of ApplyFileConfig: every value of fileConfig is applied, the
\* empty ones too.
ApplyFileConfig_Overwrites(c, f) ==
    [c EXCEPT
        !.BochaAPIKey     = f.BochaAPIKey,
        !.BochaAPIBaseURL = f.BochaAPIBaseURL,
        !.HTTPTimeout     = IF ParseDuration(f.HTTPTimeoutStr).ok
                            THEN ParseDuration(f.HTTPTimeoutStr).d ELSE @,
        !.ServerName      = f.ServerName,
        !.ServerVersion   = f.ServerVersion]

\* The non-empty values of fileConfig applied to c.
ApplyFileConfig(c, f) ==
    [c EXCEPT
        !.BochaAPIKey     = IF f.BochaAPIKey # <<>> THEN f.BochaAPIKey ELSE @,
        !.BochaAPIBaseURL = IF f.BochaAPIBaseURL # <<>> THEN f.BochaAPIBaseURL ELSE @,
        !.HTTPTimeout     = IF f.HTTPTimeoutStr # <<>> /\ ParseDuration(f.HTTPTimeoutStr).ok
                            THEN ParseDuration(f.HTTPTimeoutStr).d ELSE @,
        !.ServerName      = IF f.ServerName # <<>> THEN f.ServerName ELSE @,
        !.ServerVersion   = IF f.ServerVersion # <<>> THEN f.ServerVersion ELSE @]

\* c.LoadFromFile(path) with the working directory cwd and `file` at the
\* path: the Config after the call, and the error.
LoadResult(c, cwd, path, file) ==
    IF ~isPathSafe(Abs(cwd, path), cwd) THEN [config |-> c, err |-> "security"]
    ELSE IF file.kind \in {"missing", "dir"} THEN [config |-> c, err |-> "read"]
    ELSE IF ~Unmarshal(file).ok THEN [config |-> c, err |-> "parse"]
    ELSE [config |-> ApplyFileConfig(c, Unmarshal(file).fileConfig), err |-> "nil"]

\* The documents of the model: every pair of values of the key and the
\* timeout, every choice of the other three keys, and all five keys.
FullDoc == Doc(Str(FileKey), Str(UrlPort), Str(Text15s), Str(FileName), Str(FileVersion))

Docs ==
    {Doc(k, Absent, t, Absent, Absent) :
        k \in {Absent, Str(<<>>), Str(FileKey)},
        t \in {Absent, Null, Str(<<>>), Str(Text15s), Str(Text500ms), Str(Text2m),
               Str(Text15), Str(TextAbc), YamlSeq}}
    \cup {Doc(Absent, u, Absent, n, v) :
             u \in {Absent, Str(UrlPort)}, n \in {Absent, Str(FileName)},
             v \in {Absent, Null, Str(FileVersion)}}
    \cup {FullDoc}

Files ==
    {File("doc", d) : d \in Docs}
    \cup {File(k, EmptyDoc) : k \in {"missing", "dir", "invalid"}}

\* The calls of LoadFromFile of the model, as <<cwd, path, file>>: every
\* file at a path in the working directory; a full document at paths
\* outside it, written plainly, with "..", and beside it; the working
\* directory itself; and the root as the working directory.
Loads ==
    {<<CwdApp, PathInCwd, f>> : f \in Files}
    \cup {<<CwdApp, q, File("doc", FullDoc)>> :
             q \in {PathViaSub, PathEtc, PathUp, PathSibling}}
    \cup {<<CwdApp, CwdApp, File("dir", EmptyDoc)>>,
          <<Separator, PathEtc, File("doc", FullDoc)>>}

\* No call of LoadFromFile yet.
NoLoad ==
    [cwd |-> <<>>, path |-> <<>>, file |-> File("missing", EmptyDoc), err |-> "none",
     before |-> DefaultConfig]

----------------------------------------------------------------------------
(* The state. *)

VARIABLES
    cfg,       \* the BochaService's apiKey, apiBaseURL and client Timeout
    caller,    \* who called Search: the Handler, or other code of the process
    tokens,    \* the rate limiter: tokens available; negative: tokens reserved
    lastMine,  \* the invocation waits and no reservation was made after its own
    need,      \* refills this invocation's reservation still waits for
    pc,        \* where the Handler invocation is
    args,      \* request.Params.Arguments
    ctxErr,    \* ctx.Err() of the Handler's context
    call,      \* the arguments of the invocation's Search call
    nSearch,   \* Search calls the invocation has made
    nTaken,    \* limiter tokens the invocation has taken
    nHttp,     \* HTTP requests the invocation has issued
    sent,      \* the HTTP request issued
    outcome,   \* what came back for the request
    ret,       \* what Search returned
    result,    \* the Handler's *mcp.CallToolResult
    goErr,     \* the Handler's error
    config,    \* the *config.Config of LoadFromFile
    load,      \* the last LoadFromFile call: its inputs, its error, c before it
    otherTokens, \* the rate limiter of another BochaService of the process
    elapsed,   \* tenths of a second the limiter has seen pass
    passed,    \* Search calls the limiter has let through
    queue      \* the Search calls waiting at the limiter: the tenths each still waits

vars == <<cfg, caller, tokens, lastMine, need, pc, args, ctxErr, call, nSearch, nTaken,
          nHttp, sent, outcome, ret, result, goErr, config, load, otherTokens, elapsed,
          passed, queue>>

\* What no step of the Handler and of its BochaService touches.
outsideVars == <<config, load, otherTokens, elapsed, passed, queue>>

limiterVars == <<tokens, lastMine, need>>
searchVars == <<call, nSearch, nTaken, nHttp, sent, outcome, ret>>

\* NewBochaServiceWithConfig and NewSearchTool: a full bucket, no invocation.
Init ==
    /\ cfg \in Configs
    /\ caller = "none"
    /\ tokens = Burst
    /\ lastMine = FALSE
    /\ need = 0
    /\ pc = "idle"
    /\ args = BaseArgs
    /\ ctxErr = "nil"
    /\ call = NoCall
    /\ nSearch = 0
    /\ nTaken = 0
    /\ nHttp = 0
    /\ sent = NoRequest
    /\ outcome = NoProviderResponse
    /\ ret = NoReturn
    /\ result = NoResult
    /\ goErr = "nil"
    /\ config = DefaultConfig
    /\ load = NoLoad
    /\ otherTokens = Burst
    /\ elapsed = 0
    /\ passed = 0
    /\ queue = <<>>

----------------------------------------------------------------------------
(* The Handler. *)

\* The host calls the Handler with an argument map and a context that may
\* have ended already.  The Handler derives its context, reads the
\* arguments and either returns an error result or calls Search.
Invoke ==
    /\ pc = "idle"
    /\ \E a \in ArgMaps, e \in {"nil", "Canceled", "DeadlineExceeded"} :
          /\ caller' = "handler"
          /\ args' = a
          /\ ctxErr' = e
          /\ nSearch' = IF ValidateArgs(a) = NoResult THEN 1 ELSE 0
          /\ nTaken' = 0
          /\ nHttp' = 0
          /\ sent' = NoRequest
          /\ outcome' = NoProviderResponse
          /\ ret' = NoReturn
          /\ goErr' = "nil"
          /\ IF ValidateArgs(a) # NoResult
             THEN /\ result' = ValidateArgs(a)
                  /\ call' = NoCall
                  /\ pc' = "done"
             ELSE /\ result' = NoResult
                  /\ call' \in CallsOf(a)
                  /\ pc' = "search"
    /\ UNCHANGED <<cfg, outsideVars, limiterVars>>

\* Search returned: the Handler renders the error or the response and
\* returns.
HandlerReturn ==
    /\ pc = "ret"
    /\ caller = "handler"
    /\ result' = HandleReturn(call, ret, ctxErr)
    /\ goErr' = "nil"
    /\ pc' = "done"
    /\ UNCHANGED <<cfg, outsideVars, caller, limiterVars, args, ctxErr, searchVars>>

\* The host takes the result; the invocation is over.
Finish ==
    /\ pc = "done"
    /\ pc' = "idle"
    /\ caller' = "none"
    /\ args' = BaseArgs
    /\ ctxErr' = "nil"
    /\ call' = NoCall
    /\ nSearch' = 0
    /\ nTaken' = 0
    /\ nHttp' = 0
    /\ sent' = NoRequest
    /\ outcome' = NoProviderResponse
    /\ ret' = NoReturn
    /\ result' = NoResult
    /\ goErr' = "nil"
    /\ UNCHANGED <<cfg, outsideVars, limiterVars>>

\* The caller cancels the context it passed.
CallerCancel ==
    /\ pc \in {"search", "wait", "http", "ret"}
    /\ ctxErr = "nil"
    /\ ctxErr' = "Canceled"
    /\ UNCHANGED <<cfg, outsideVars, caller, limiterVars, pc, args, searchVars, result, goErr>>

\* The Handler's 30-second timer, or the caller's own deadline, fires.
DeadlineFire ==
    /\ pc \in {"search", "wait", "http", "ret"}
    /\ ctxErr = "nil"
    /\ ctxErr' = "DeadlineExceeded"
    /\ UNCHANGED <<cfg, outsideVars, caller, limiterVars, pc, args, searchVars, result, goErr>>

----------------------------------------------------------------------------
(* Other callers of Search. *)

\* Code other than the Handler calls Search, with typed arguments of its own
\* and a context that may have ended already.
SearchCall ==
    /\ pc = "idle"
    /\ \E c \in DirectCalls, e \in {"nil", "Canceled", "DeadlineExceeded"} :
          /\ call' = c
          /\ ctxErr' = e
    /\ caller' = "other"
    /\ args' = NoArgs
    /\ nSearch' = 1
    /\ nTaken' = 0
    /\ nHttp' = 0
    /\ sent' = NoRequest
    /\ outcome' = NoProviderResponse
    /\ ret' = NoReturn
    /\ result' = NoResult
    /\ goErr' = "nil"
    /\ pc' = "search"
    /\ UNCHANGED <<cfg, outsideVars, limiterVars>>

\* That caller takes what Search returned; the call is over.
SearchReturned ==
    /\ pc = "ret"
    /\ caller = "other"
    /\ pc' = "idle"
    /\ caller' = "none"
    /\ args' = BaseArgs
    /\ ctxErr' = "nil"
    /\ call' = NoCall
    /\ nSearch' = 0
    /\ nTaken' = 0
    /\ nHttp' = 0
    /\ sent' = NoRequest
    /\ outcome' = NoProviderResponse
    /\ ret' = NoReturn
    /\ result' = NoResult
    /\ goErr' = "nil"
    /\ UNCHANGED <<cfg, outsideVars, limiterVars>>

----------------------------------------------------------------------------
(* BochaService.Search *)

\* A mutant of AfterLimiter: the request is issued before the arguments
\* are validated.
AfterLimiter_SendsThenValidates ==
    /\ sent' = BuildRequest(cfg, call)
    /\ nHttp' = nHttp + 1
    /\ IF SearchValidate(call) # NoErr
       THEN /\ ret' = Return(NilResponse, SearchValidate(call))
            /\ pc' = "ret"
       ELSE /\ pc' = "http"
            /\ UNCHANGED ret

\* What Search does once the limiter has let the call through: it validates,
\* and returns the error or issues the request.
AfterLimiter ==
    IF SearchValidate(call) # NoErr
    THEN /\ ret' = Return(NilResponse, SearchValidate(call))
         /\ pc' = "ret"
         /\ UNCHANGED <<nHttp, sent>>
    ELSE /\ sent' = BuildRequest(cfg, call)
         /\ nHttp' = nHttp + 1
         /\ pc' = "http"
         /\ UNCHANGED ret

\* A mutant of SearchEnter: the arguments are validated first, and a call
\* they fail returns without going to the limiter.
SearchEnter_ValidatesFirst ==
    /\ pc = "search"
    /\ \/ /\ SearchValidate(call) # NoErr
          /\ ret' = Return(NilResponse, SearchValidate(call))
          /\ pc' = "ret"
          /\ UNCHANGED <<limiterVars, nTaken, nHttp, sent>>
       \/ /\ SearchValidate(call) = NoErr
          /\ ctxErr # "nil"
          /\ ret' = Return(NilResponse,
                           Err(ErrRateLimitPrefix \o CtxErrText(ctxErr), CtxCause(ctxErr)))
          /\ pc' = "ret"
          /\ UNCHANGED <<limiterVars, nTaken, nHttp, sent>>
       \/ /\ SearchValidate(call) = NoErr
          /\ ctxErr = "nil"
          /\ tokens >= 1
          /\ tokens' = tokens - 1
          /\ nTaken' = nTaken + 1
          /\ UNCHANGED <<lastMine, need>>
          /\ AfterLimiter
       \/ /\ SearchValidate(call) = NoErr
          /\ ctxErr = "nil"
          /\ tokens < 1
          /\ tokens' = tokens - 1
          /\ lastMine' = TRUE
          /\ need' = 1 - tokens
          /\ nTaken' = nTaken + 1
          /\ pc' = "wait"
          /\ UNCHANGED <<ret, nHttp, sent>>
    /\ UNCHANGED <<cfg, outsideVars, caller, args, ctxErr, call, nSearch, outcome, result, goErr>>

\* rateLimiter.Wait(ctx) begins.  An ended context fails the call at once.
\* With a token available the call takes it and goes on.  With none, it
\* reserves one and waits, unless the wait would pass the context's deadline.
SearchEnter ==
    /\ pc = "search"
    /\ \/ /\ ctxErr # "nil"
          /\ ret' = Return(NilResponse,
                           Err(ErrRateLimitPrefix \o CtxErrText(ctxErr), CtxCause(ctxErr)))
          /\ pc' = "ret"
          /\ UNCHANGED <<limiterVars, nTaken, nHttp, sent>>
       \/ /\ ctxErr = "nil"
          /\ tokens >= 1
          /\ tokens' = tokens - 1
          /\ nTaken' = nTaken + 1
          /\ UNCHANGED <<lastMine, need>>
          /\ AfterLimiter
       \/ /\ ctxErr = "nil"
          /\ tokens < 1
          /\ tokens' = tokens - 1
          /\ lastMine' = TRUE
          /\ need' = 1 - tokens
          /\ nTaken' = nTaken + 1
          /\ pc' = "wait"
          /\ UNCHANGED <<ret, nHttp, sent>>
       \/ /\ ctxErr = "nil"
          /\ tokens < 1
          /\ ret' = Return(NilResponse,
                           Err(ErrRateLimitPrefix \o TextWouldExceed, "wouldExceed"))
          /\ pc' = "ret"
          /\ UNCHANGED <<limiterVars, nTaken, nHttp, sent>>
    /\ UNCHANGED <<cfg, outsideVars, caller, args, ctxErr, call, nSearch, outcome, result, goErr>>

\* The reserved token has come: Wait returns nil and the call goes on.
WaitGranted ==
    /\ pc = "wait"
    /\ need = 0
    /\ lastMine' = FALSE
    /\ AfterLimiter
    /\ UNCHANGED <<cfg, outsideVars, caller, tokens, need, args, ctxErr, call, nSearch, nTaken,
                   outcome, result, goErr>>

\* A mutant of WaitCtxDone: the call notices the end of its context only
\* when its token has come.
WaitCtxDone_AfterTheWait ==
    /\ pc = "wait"
    /\ ctxErr # "nil"
    /\ need = 0
    /\ lastMine' = FALSE
    /\ ret' = Return(NilResponse,
                     Err(ErrRateLimitPrefix \o CtxErrText(ctxErr), CtxCause(ctxErr)))
    /\ pc' = "ret"
    /\ UNCHANGED <<cfg, outsideVars, caller, tokens, need, nTaken, args, ctxErr, call, nSearch,
                   nHttp, sent, outcome, result, goErr>>

\* The context ends during the wait: Wait cancels the reservation, which
\* gives the token back when no later reservation was made, and the call
\* fails.
WaitCtxDone ==
    /\ pc = "wait"
    /\ ctxErr # "nil"
    /\ tokens' = IF lastMine /\ need > 0 THEN tokens + 1 ELSE tokens
    /\ nTaken' = IF lastMine /\ need > 0 THEN nTaken - 1 ELSE nTaken
    /\ need' = 0
    /\ lastMine' = FALSE
    /\ ret' = Return(NilResponse,
                     Err(ErrRateLimitPrefix \o CtxErrText(ctxErr), CtxCause(ctxErr)))
    /\ pc' = "ret"
    /\ UNCHANGED <<cfg, outsideVars, caller, args, ctxErr, call, nSearch, nHttp, sent, outcome,
                   result, goErr>>

\* A mutant of HttpRespond: a failed request is sent once more.
HttpRespond_RetryOnFailure ==
    /\ pc = "http"
    /\ \E o \in Outcomes(cfg, args, ctxErr) :
          /\ outcome' = o
          /\ IF SearchReturn(cfg, o).err # NoErr /\ nHttp < 2
             THEN /\ nHttp' = nHttp + 1
                  /\ pc' = "http"
                  /\ UNCHANGED ret
             ELSE /\ nHttp' = nHttp
                  /\ ret' = SearchReturn(cfg, o)
                  /\ pc' = "ret"
    /\ UNCHANGED <<cfg, outsideVars, caller, limiterVars, args, ctxErr, call, nSearch, nTaken,
                   sent, result, goErr>>

\* httpClient.Do and the read of the body end, and Search returns.
HttpRespond ==
    /\ pc = "http"
    /\ \E o \in Outcomes(cfg, args, ctxErr) :
          /\ outcome' = o
          /\ ret' = SearchReturn(cfg, o)
    /\ pc' = "ret"
    /\ UNCHANGED <<cfg, outsideVars, caller, limiterVars, args, ctxErr, call, nSearch, nTaken, nHttp,
                   sent, result, goErr>>

----------------------------------------------------------------------------
(* The limiter's environment. *)

\* A mutant of Refill: the token that comes is not counted for the call
\* that waits.
Refill_ForgetsWaiter ==
    /\ tokens < Burst
    /\ tokens' = tokens + 1
    /\ UNCHANGED <<cfg, outsideVars, caller, lastMine, need, pc, args, ctxErr, searchVars, result, goErr>>

\* Time passes: the bucket gains a token.
Refill ==
    /\ tokens < Burst
    /\ tokens' = tokens + 1
    /\ need' = IF need > 0 THEN need - 1 ELSE 0
    /\ UNCHANGED <<cfg, outsideVars, caller, lastMine, pc, args, ctxErr, searchVars, result, goErr>>

\* Another caller of the same BochaService takes or reserves a token.
ConcurrentAcquire ==
    /\ tokens > -MaxBacklog
    /\ tokens' = tokens - 1
    /\ lastMine' = FALSE
    /\ UNCHANGED <<cfg, outsideVars, caller, need, pc, args, ctxErr, searchVars, result, goErr>>

Next ==
    \/ Invoke
    \/ HandlerReturn
    \/ Finish
    \/ CallerCancel
    \/ DeadlineFire
    \/ SearchEnter
    \/ WaitGranted
    \/ WaitCtxDone
    \/ HttpRespond
    \/ Refill
    \/ ConcurrentAcquire

Spec == Init /\ [][Next]_vars

\* Search called by other code only.
SearchNext ==
    \/ SearchCall
    \/ SearchReturned
    \/ CallerCancel
    \/ DeadlineFire
    \/ SearchEnter
    \/ WaitGranted
    \/ WaitCtxDone
    \/ HttpRespond
    \/ Refill
    \/ ConcurrentAcquire

SearchSpec == Init /\ [][SearchNext]_vars

\* Search called by the Handler and by other code.
ServiceNext ==
    \/ Next
    \/ SearchCall
    \/ SearchReturned

ServiceSpec == Init /\ [][ServiceNext]_vars

\* The end of the context ends the request in flight: Do, or the read of
\* the body, returns ctx.Err().
HttpAbort ==
    /\ HttpRespond
    /\ outcome' \in ContextFailures(ctxErr)

\* A few argument maps: one the Handler rejects, two it passes on.
LiveArgMaps ==
    {Args(Absent, Str(FDay), Num(50), Bool(TRUE)),
     Args(Str(QShort), Str(FWeek), Num(50), Bool(TRUE)),
     Args(Str(QShort), Str(FDay), Num(5), Bool(TRUE))}

LiveInvoke ==
    /\ Invoke
    /\ args' \in LiveArgMaps

LiveNext ==
    \/ LiveInvoke
    \/ HandlerReturn
    \/ Finish
    \/ CallerCancel
    \/ DeadlineFire
    \/ SearchEnter
    \/ WaitGranted
    \/ WaitCtxDone
    \/ HttpRespond
    \/ Refill
    \/ ConcurrentAcquire

\* What the runtime guarantees of an invocation in flight.  The timer of
\* context.WithTimeout fires (tools.go:410); the goroutine of the invocation
\* takes its next step when it can: it enters Search, leaves Wait when its
\* timer or its context is ready, leaves Do when its context has ended, and
\* returns from the Handler.  Nothing is asked of the provider (HttpRespond),
\* of the bucket (Refill), of the caller or of the host.  The Handler's
\* return is enabled exactly where pc = "ret" and always leaves it, so weak
\* fairness of HandlerReturn is the last conjunct as it stands.
Fairness ==
    /\ WF_vars(DeadlineFire)
    /\ WF_vars(SearchEnter)
    /\ WF_vars(WaitGranted)
    /\ WF_vars(WaitCtxDone)
    /\ WF_vars(HttpAbort)
    /\ []<>(pc # "ret")

\* Invocations of the Handler under that fairness.
LiveSpec == Init /\ [][LiveNext]_vars /\ Fairness

\* The dateLastCrawled texts of the model: days that exist and days that do
\* not, alone and followed by a clock and a zone that time.Parse takes or
\* refuses; free text; the empty text; and a date in the long form.
DateInputs ==
    {day \o clock :
        day \in {DateDay, DayNoLeap, DayMonth13, DayFirst, DayLast, DayShort, DayMarch},
        clock \in {<<>>, ClockZulu, ClockOffset, ClockFraction, ClockHour25,
                   ClockNoZone, OutSp}}
    \cup {DateBad, <<>>, DateLong}

\* The provider answers with one result, whose date is any of DateInputs.
DateRespond ==
    /\ pc = "http"
    /\ \E d \in DateInputs :
          LET o == ProviderResponse("response", StatusOK,
                                    Body(64, 64, TRUE, "absent", <<>>, "array",
                                         <<Result(TitleA, UrlA, <<>>, <<>>, <<>>, d)>>,
                                         <<>>, <<>>),
                                    <<>>, "nil")
          IN  /\ outcome' = o
              /\ ret' = SearchReturn(cfg, o)
    /\ pc' = "ret"
    /\ UNCHANGED <<cfg, outsideVars, caller, limiterVars, args, ctxErr, call, nSearch, nTaken, nHttp,
                   sent, result, goErr>>

\* Invocations of the Handler whose results carry the dates of DateInputs.
DateNext ==
    \/ LiveInvoke
    \/ HandlerReturn
    \/ Finish
    \/ CallerCancel
    \/ DeadlineFire
    \/ SearchEnter
    \/ WaitGranted
    \/ WaitCtxDone
    \/ DateRespond
    \/ Refill
    \/ ConcurrentAcquire

DateSpec == Init /\ [][DateNext]_vars

\* Invocations of the Handler that share the limiter with other calls, as
\* time passes: the bucket refills while it is not full, and a call whose
\* token has come leaves Wait.  Nothing is asked of the contexts.
LimiterSpec == Init /\ [][LiveNext]_vars /\ WF_vars(Refill) /\ WF_vars(WaitGranted)

\* A mutant of OtherAcquire: the limiter is one variable of the package,
\* and a token another BochaService takes leaves this one's bucket too.
OtherAcquire_PackageLimiter ==
    /\ otherTokens > -MaxBacklog
    /\ tokens > -MaxBacklog
    /\ otherTokens' = otherTokens - 1
    /\ tokens' = tokens - 1
    /\ UNCHANGED <<cfg, config, load, elapsed, passed, queue, caller, lastMine, need, pc, args, ctxErr, searchVars,
                   result, goErr>>

\* A Search call on another BochaService, made by NewBochaServiceWithConfig
\* with a rate limiter of its own, takes or reserves a token of that limiter.
OtherAcquire ==
    /\ otherTokens > -MaxBacklog
    /\ otherTokens' = otherTokens - 1
    /\ UNCHANGED <<cfg, config, load, elapsed, passed, queue, caller, limiterVars, pc, args, ctxErr, searchVars,
                   result, goErr>>

\* A tenth of a second passes for the other BochaService's limiter.
OtherRefill ==
    /\ otherTokens < Burst
    /\ otherTokens' = otherTokens + 1
    /\ UNCHANGED <<cfg, config, load, elapsed, passed, queue, caller, limiterVars, pc, args, ctxErr, searchVars,
                   result, goErr>>

\* Two BochaServices of one process: the Handler's, and another.
TwoNext ==
    \/ LiveNext
    \/ OtherAcquire
    \/ OtherRefill

TwoSpec == Init /\ [][TwoNext]_vars

\* The tokens reserved at the limiter at one time, and the tenths of a
\* second the limiter is watched for.
MaxWaiting == 3
MaxElapsed == 4

\* What the limiter's steps leave alone.
bucketFrame ==
    <<cfg, config, load, otherTokens, caller, lastMine, need, pc, args, ctxErr, searchVars,
      result, goErr>>

\* s without its element i.
Without(s, i) == SubSeq(s, 1, i - 1) \o SubSeq(s, i + 1, Len(s))

\* A mutant of WaitTakes: the call passes whatever the bucket holds.
WaitTakes_NoBucket ==
    /\ passed' = passed + 1
    /\ UNCHANGED <<tokens, elapsed, queue, bucketFrame>>

\* rateLimiter.Wait(ctx) of a Search call with a token in the bucket: the
\* call takes it and passes.
WaitTakes ==
    /\ tokens >= 1
    /\ tokens' = tokens - 1
    /\ passed' = passed + 1
    /\ UNCHANGED <<elapsed, queue, bucketFrame>>

\* rateLimiter.Wait(ctx) with no token in the bucket: the call reserves the
\* next token not yet reserved and waits for the time it comes.
WaitReserves ==
    /\ tokens < 1
    /\ tokens > -MaxWaiting
    /\ tokens' = tokens - 1
    /\ queue' = Append(queue, 1 - tokens)
    /\ UNCHANGED <<elapsed, passed, bucketFrame>>

\* A tenth of a second passes: at 10 tokens a second one token comes, and
\* a full bucket stays full.
Tick ==
    /\ elapsed < MaxElapsed
    /\ elapsed' = elapsed + 1
    /\ tokens' = IF tokens < Burst THEN tokens + 1 ELSE tokens
    /\ queue' = [i \in 1..Len(queue) |-> IF queue[i] > 0 THEN queue[i] - 1 ELSE 0]
    /\ UNCHANGED <<passed, bucketFrame>>

\* The time of a waiting call's reservation has come: Wait returns nil.
ReservationDue ==
    /\ \E i \in 1..Len(queue) :
          /\ queue[i] = 0
          /\ queue' = Without(queue, i)
    /\ passed' = passed + 1
    /\ UNCHANGED <<tokens, elapsed, bucketFrame>>

\* The context of a waiting call ends: Wait cancels the reservation, and
\* the token goes back when the time has not come and no call reserved after
\* this one.
ReservationCancelled ==
    /\ \E i \in 1..Len(queue) :
          /\ queue' = Without(queue, i)
          /\ tokens' = IF i = Len(queue) /\ queue[i] > 0 THEN tokens + 1 ELSE tokens
    /\ UNCHANGED <<elapsed, passed, bucketFrame>>

\* The token bucket of one BochaService under any number of Search calls.
BucketNext ==
    \/ WaitTakes
    \/ WaitReserves
    \/ Tick
    \/ ReservationDue
    \/ ReservationCancelled

BucketSpec == Init /\ [][BucketNext]_vars

\* c.LoadFromFile(path)
LoadFromFile ==
    /\ \E l \in Loads :
          LET r == LoadResult(config, l[1], l[2], l[3])
          IN  /\ config' = r.config
              /\ load' = [cwd |-> l[1], path |-> l[2], file |-> l[3], err |-> r.err,
                          before |-> config]
    /\ UNCHANGED <<cfg, caller, limiterVars, pc, args, ctxErr, searchVars, result, goErr,
                   otherTokens, elapsed, passed, queue>>

\* A Config and the files loaded into it, one after another.
ConfigSpec == Init /\ [][LoadFromFile]_vars

TypeOK ==
    /\ pc \in {"idle", "search", "wait", "http", "ret", "done"}
    /\ tokens \in (-(MaxBacklog + 1))..Burst

----------------------------------------------------------------------------
(* The properties. *)

\* The invocation has called Search.
Called == nSearch > 0

\* Search has returned to the Handler.
Returned == pc \in {"ret", "done"}

\* The provider answered the request with a status and a body.
Answered == Returned /\ outcome.kind = "response"

\* C1: every call the Handler makes to Search carries a non-empty query of
\* at most 1000 bytes, one of the five freshness values and a count in
\* 1..50, whatever the argument map holds.
C1_SearchCallWellFormed ==
    Called =>
        /\ call.query # <<>>
        /\ Len(call.query) <= 1000
        /\ call.freshness \in {FNoLimit, FDay, FWeek, FMonth, FOneYear}
        /\ call.count \in 1..50

\* A call made for a count no int represents, clamped to the upper end.
C1_Witness ==
    Called /\ args.count.t = "huge" /\ call.count = 50

\* C2: the Handler returns a result and a nil error on every path, and the
\* result is error-flagged exactly when the arguments were rejected (Search
\* was not called) or Search returned an error.
C2_ResultAlwaysWellFormed ==
    pc = "done" =>
        /\ ~result.isNil
        /\ goErr = "nil"
        /\ result.isError <=> (~Called \/ ret.err # NoErr)

\* The Handler has returned the text of a successful search.
C2_Witness ==
    pc = "done" /\ Called /\ ret.err = NoErr /\ ~result.isError /\ result.text # <<>>

\* C3: whatever made Search fail, the error text the Handler renders holds
\* neither the API key nor the base URL of the configuration.
C3_NoSecretInErrorText ==
    (pc = "done" /\ Called /\ ret.err # NoErr) =>
        /\ ~Contains(result.text, cfg.apiKey)
        /\ ~Contains(result.text, cfg.apiBaseURL)

\* C4: when Search fails, the Handler renders the timed-out message if the
\* failure came from an exceeded context deadline, and otherwise "Search
\* failed: " with the sanitized error text; no other failure is rendered
\* as timed out.
C4_TimedOutOnlyForDeadline ==
    (pc = "done" /\ Called /\ ret.err # NoErr) =>
        IF ret.err.cause = "deadline"
        THEN result.text = MsgTimedOut
        ELSE result.text = MsgSearchFailed \o sanitizeErrorMessage(ret.err.msg)

\* The bytes Search read from the body decode to a document with a
\* non-empty "error" string.
HasErrorMessage(body) ==
    /\ body.valid /\ body.docLen <= BodyLimit
    /\ body.errT = "string" /\ body.errS # <<>>

\* C5: for a response whose status is not 2xx, Search fails with an error
\* that carries the status code and, when the body decodes with a non-empty
\* "error" string, that string; without one the error carries the status
\* code alone.  Nothing else of the body is in the error.
C5_NonOkStatusError ==
    (Answered /\ outcome.status \notin 200..299) =>
        /\ ret.resp.isNil
        /\ ret.err.cause = "provider"
        /\ ~Contains(ret.err.msg, outcome.body.detail)
        /\ IF HasErrorMessage(outcome.body)
           THEN ret.err.msg = ErrApiPrefix \o Itoa(outcome.status) \o ErrApiMid
                              \o outcome.body.errS
           ELSE ret.err.msg = ErrStatusPrefix \o Itoa(outcome.status)

\* Search has failed a status-400 response with the provider's message.
C5_Witness ==
    /\ Answered /\ outcome.status = 400
    /\ outcome.body.errS = TextBoom
    /\ Contains(ret.err.msg, TextBoom)

\* The bytes Search read from the body decode into a WebSearchResponse.
Decodes(body) ==
    body.valid /\ body.docLen <= BodyLimit /\ body.valueT # "number"

\* What C6 says of a response.
C6_Cases ==
    /\ ~outcome.body.valid => ret.err.cause = "decode"
    /\ (Decodes(outcome.body) /\ outcome.body.valueT \in {"absent", "null"})
          => ret.err.cause = "empty"
    /\ (Decodes(outcome.body) /\ outcome.body.valueT = "array")
          => /\ ret.err = NoErr
             /\ ~ret.resp.isNil
             /\ ~ret.resp.valueNil
             /\ ret.resp.value = outcome.body.value
             /\ ret.resp.webSearchURL = outcome.body.webSearchURL

C7_TooLargeFails ==
    (Answered /\ outcome.body.len > BodyLimit) => ret.err.cause = "tooLarge"

\* C8: a query that is absent, not a string or empty yields an error result
\* that mentions "query"; Search is not called, no token is taken and no
\* HTTP request is issued.
C8_BadQueryRejected ==
    (pc # "idle" /\ (args.query.t # "string" \/ args.query.s = <<>>)) =>
        /\ pc = "done"
        /\ result.isError
        /\ Contains(result.text, WordQuery)
        /\ ~Called /\ nTaken = 0 /\ nHttp = 0
        /\ sent = NoRequest

\* The Handler has rejected a query that is a number.
C8_Witness ==
    /\ pc = "done" /\ args.query.t = "number"
    /\ result = ToolResultError(ErrQueryRequired) /\ ~Called

\* C9: a query of more than 1000 characters yields an error result without
\* a call of Search, and a query of at most 1000 characters is never
\* rejected for its length.
C9_LengthInCharacters ==
    (pc # "idle" /\ args.query.t = "string") =>
        /\ Chars(args.query.s) > 1000 => (pc = "done" /\ result.isError /\ ~Called)
        /\ Chars(args.query.s) <= 1000 => result.text # ErrQueryTooLong

\* The freshness argument is a string the Handler has to check.
FreshnessGiven == args.freshness.t = "string" /\ args.freshness.s # <<>>

\* The query argument passes the Handler's checks.
QueryPasses ==
    /\ args.query.t = "string"
    /\ Len(args.query.s) >= 1
    /\ Len(args.query.s) <= 1000

\* C10 as stated: a freshness argument that is present and is none of the
\* five values yields an error result and no call of Search; an absent or
\* empty one makes the Handler call Search with "noLimit".
C10_Original ==
    /\ (/\ pc # "idle"
        /\ args.freshness.t # "absent"
        /\ ~(args.freshness.t = "string"
             /\ args.freshness.s \in Freshnesses \cup {<<>>}))
          => (pc = "done" /\ result.isError /\ ~Called)
    /\ (/\ pc # "idle" /\ QueryPasses
        /\ (args.freshness.t = "absent" \/ args.freshness = Str(<<>>)))
          => (Called /\ call.freshness = FNoLimit)

\* C10 as amended: a freshness argument that is a non-empty string and none
\* of the five values yields an error result and no call of Search; one that
\* is absent, not a string or empty makes the Handler, when the query
\* passes, call Search with "noLimit".
C10_FreshnessChecked ==
    /\ (pc # "idle" /\ FreshnessGiven /\ args.freshness.s \notin Freshnesses)
          => (pc = "done" /\ result.isError /\ ~Called)
    /\ (pc # "idle" /\ QueryPasses /\ ~FreshnessGiven)
          => (Called /\ call.freshness = FNoLimit)

\* The Handler has called Search for a freshness that is a number.
C10_Witness ==
    Called /\ args.freshness.t = "number" /\ call.freshness = FNoLimit

\* The freshness argument passes the Handler's checks.
FreshnessPasses == FreshnessGiven => args.freshness.s \in Freshnesses

\* C11: when the "count" argument is absent or not a number the Handler
\* calls Search with count 10, and when the summary flag is absent or not a
\* boolean it calls Search with summary = false; whatever these two
\* arguments hold, the Handler returns no error result for them: it calls
\* Search whenever the query and the freshness pass.
C11_OptionalDefaults ==
    (pc # "idle" /\ QueryPasses /\ FreshnessPasses) =>
        /\ Called
        /\ args.count.t \notin {"number", "huge"} => call.count = 10
        /\ args.summary.t # "bool" => call.summary = FALSE

\* The Handler has called Search with the default count for a count that is
\* a string.
C11_Witness ==
    Called /\ args.count.t = "string" /\ call.count = 10 /\ ~result.isError

\* Search failed at the rate limiter.
RateLimited == ret.err # NoErr /\ HasPrefix(ret.err.msg, ErrRateLimitPrefix)

\* The five freshness values.
Enumerated == {FNoLimit, FDay, FWeek, FMonth, FOneYear}

\* Search failed with the invalid-freshness error and issued no request.
FailsForFreshness ==
    /\ ret.err # NoErr /\ ret.resp.isNil
    /\ HasPrefix(ret.err.msg, ErrInvalidFreshnessPrefix)
    /\ Contains(ret.err.msg, call.freshness)
    /\ nHttp = 0 /\ sent = NoRequest

\* C12 as stated: every call to Search whose freshness is non-empty and none
\* of the five values fails with the invalid-freshness error, and no HTTP
\* request is issued for it.
C12_Original ==
    (Returned /\ call.freshness # <<>> /\ call.freshness \notin Enumerated)
        => FailsForFreshness

\* C12 as amended: such a call fails and no HTTP request is issued for it;
\* it fails with the invalid-freshness error unless it failed before that
\* check: at the rate limiter, or with the empty-query error for an empty
\* query.
C12_InvalidFreshnessFails ==
    (Returned /\ call.freshness # <<>> /\ call.freshness \notin Enumerated) =>
        /\ ret.err # NoErr /\ ret.resp.isNil
        /\ nHttp = 0 /\ sent = NoRequest
        /\ ~RateLimited =>
              IF call.query = <<>> THEN ret.err.msg = ErrEmptyQuery
              ELSE FailsForFreshness

\* Search has taken a token and failed a call for its freshness "hour".
C12_Witness ==
    /\ Returned /\ call.freshness = FHour /\ call.query = QShort
    /\ FailsForFreshness /\ nTaken = 1

\* What C13 says, for the set ok of freshness values: a call whose
\* freshness is not in ok is rejected before any network I/O, and every
\* request sent carries a freshness of ok.
C13_Cases(ok) ==
    /\ (pc # "idle" /\ call.freshness \notin ok) =>
          /\ nHttp = 0 /\ sent = NoRequest /\ outcome = NoProviderResponse
          /\ Returned => ret.err # NoErr
    /\ nHttp > 0 => sent.body.freshness \in ok

\* C13 as stated: the freshness of a call is one of the five values or the
\* call is rejected before any network I/O, so that every request sent to
\* the provider carries one of the five.
C13_Original == C13_Cases(Enumerated)

\* C13 as amended: the same, with the empty freshness let through as the
\* five values are.
C13_FreshnessEmptyOrListed == C13_Cases(Enumerated \cup {<<>>})

\* Search has sent a request with the empty freshness and has succeeded.
C13_Witness ==
    /\ Returned /\ call.freshness = <<>> /\ nHttp = 1
    /\ sent.body.freshness = <<>> /\ ret.err = NoErr

\* max(1, min(50, c))
Clamped(c) ==
    LET m == IF c < 50 THEN c ELSE 50
    IN  IF m > 1 THEN m ELSE 1

\* C14: the count Search transmits is max(1, min(50, c)) for the count c it
\* was called with, and no call is rejected because of its count: a call
\* that Search rejects has an empty query or a freshness that is not
\* allowed.  The Handler applies the same clamp to the integer a numeric
\* "count" argument converts to: 0 gives 1, 51 gives 50, 10 gives 10.
C14_CountClamped ==
    /\ nHttp > 0 => sent.body.count = Clamped(call.count)
    /\ (Called /\ Returned /\ nHttp = 0 /\ ~RateLimited) =>
          \/ call.query = <<>>
          \/ call.freshness \notin Enumerated \cup {<<>>}
    /\ (caller = "handler" /\ Called /\ args.count.t \in {"number", "huge"}) =>
          /\ call.count \in {Clamped(i) : i \in IntOf(args.count)}
          /\ args.count = Num(0) => call.count = 1
          /\ args.count = Num(510) => call.count = 50
          /\ args.count = Num(100) => call.count = 10
    /\ (caller = "other" /\ nHttp > 0) =>
          /\ call.count = 0 => sent.body.count = 1
          /\ call.count = 51 => sent.body.count = 50
          /\ call.count = 10 => sent.body.count = 10

\* Search, called with count 51 by other code, has sent count 50 and has
\* succeeded.
C14_Witness ==
    /\ caller = "other" /\ call.count = 51 /\ Returned
    /\ nHttp = 1 /\ sent.body.count = 50 /\ ret.err = NoErr

\* Search was called with arguments that pass its checks, and the limiter
\* let the call through.
PassesChecks ==
    /\ Called /\ Returned /\ ~RateLimited
    /\ call.query # <<>>
    /\ call.freshness \in Enumerated \cup {<<>>}

\* C15: a query of more than 1000 bytes is not rejected, and the query the
\* provider receives has length exactly 1000 and is a prefix of it; a query
\* of at most 1000 bytes is transmitted unchanged.  (Length is counted as
\* the code counts it, in bytes; counted in characters the claim asks of
\* the queries of the model no less.)
C15_TruncatedToPrefix ==
    PassesChecks =>
        /\ nHttp = 1
        /\ IF Len(call.query) > 1000
           THEN /\ Len(sent.body.query) = 1000
                /\ sent.body.query = SubSeq(call.query, 1, 1000)
           ELSE sent.body.query = call.query

\* Search has returned the rate-limit error that names the end of its
\* context, without a request.
RateLimitReturn ==
    /\ pc = "ret"
    /\ ret.resp.isNil
    /\ ret.err.msg = ErrRateLimitPrefix \o CtxErrText(ctxErr)
    /\ nHttp = 0 /\ sent = NoRequest /\ outcome = NoProviderResponse

EndedInError == pc = "done" /\ ~result.isNil /\ result.isError /\ goErr = "nil"

\* C17: every invocation of the Handler ends with a result, though the
\* provider never answers and the bucket never refills; an invocation that
\* ends having called Search without an answer of the provider ends with an
\* error-flagged result; and the end of the context can end the wait for a
\* token and the request in flight.  (Time is not measured: the expiry is a
\* step that comes, not a step that comes within 30 seconds.)
C17_InvocationEnds ==
    /\ (pc # "idle") ~> (pc = "done")
    /\ [](pc = "done" /\ Called /\ outcome.kind # "response" => EndedInError)
    /\ [](pc = "wait" /\ ctxErr # "nil" => ENABLED WaitCtxDone)
    /\ [](pc = "http" /\ ctxErr # "nil" => ENABLED HttpAbort)

\* The deadline came while the request was in flight, the request was
\* aborted, and the invocation has ended with an error-flagged result.
C17_Witness ==
    /\ EndedInError /\ ctxErr = "DeadlineExceeded"
    /\ nHttp = 1 /\ outcome.kind = "sendError" /\ outcome.cause = "deadline"

\* The request failed: in the transport, with a status outside 2xx, or with
\* a body that does not decode or holds no results.
FailedOutcome ==
    \/ outcome.kind \in {"sendError", "readError"}
    \/ /\ outcome.kind = "response"
       /\ (outcome.status \notin 200..299 \/ outcome \in FailedResponses)

\* C18: a Search call issues no request before the limiter and the
\* validation have let it through, it has issued exactly one request when
\* it returns having passed them and none when it returns having failed at
\* one of them, it never issues a second, and when its request fails it
\* returns the error with that one request issued.
C18_OneRequestNoRetry ==
    /\ nHttp <= 1
    /\ (Called /\ pc \in {"search", "wait"}) => nHttp = 0
    /\ pc = "http" => nHttp = 1
    /\ (Called /\ Returned) => nHttp = (IF PassesChecks THEN 1 ELSE 0)
    /\ (Returned /\ FailedOutcome) =>
          nHttp = 1 /\ ret.err # NoErr /\ ret.resp.isNil

\* Search has returned an error for a status-200 response it could not use,
\* having issued the one request.
C18_Witness ==
    /\ caller = "other" /\ pc = "ret"
    /\ outcome \in FailedResponses
    /\ nHttp = 1 /\ ret.err # NoErr

\* The request is a POST to the base URL with the bearer token and the JSON
\* content type, and its body carries the call's query (of at most 1000
\* bytes: longer ones are C15's), freshness, clamped count and summary flag.
RequestAsGiven ==
    /\ sent.method = MethodPost
    /\ sent.url = cfg.apiBaseURL
    /\ sent.auth = BearerMarker \o cfg.apiKey
    /\ sent.contentType = ContentTypeJson
    /\ Len(call.query) <= 1000 => sent.body.query = call.query
    /\ sent.body.freshness = call.freshness
    /\ sent.body.count = Clamped(call.count)
    /\ sent.body.summary = call.summary

\* C19: every request Search sends is a POST to the configured base URL
\* with Authorization "Bearer <apiKey>" and content-type JSON, and its body
\* carries the query, the freshness, the clamped count and the summary flag
\* of the call together with a member "stream" that is false.
C19_RequestWithStreamFalse ==
    nHttp = 1 =>
        /\ RequestAsGiven
        /\ "stream" \in DOMAIN sent.body
        /\ sent.body.stream = FALSE

\* A URL is left in s: one of the two prefixes, followed by a byte that is
\* no boundary character.
UrlLeft(s) ==
    \E prefix \in {HttpPrefix, HttpsPrefix} :
        \E i \in 1..(Len(s) - Len(prefix)) :
            /\ SubSeq(s, i, i + Len(prefix) - 1) = prefix
            /\ s[i + Len(prefix)] \notin {BoundaryChars[k] : k \in DOMAIN BoundaryChars}

\* C20: sanitizeErrorMessage leaves no URL in an error text: every
\* occurrence of http:// or https:// followed by URL text is replaced,
\* however many the text holds.  The texts are those of the errors Search
\* returns to the Handler.
C20_EveryUrlRedacted ==
    (Returned /\ Called /\ ret.err # NoErr) =>
        ~UrlLeft(sanitizeErrorMessage(ret.err.msg))

\* The text after a "Bearer " marker with its token replaced: the token
\* runs to the next boundary character or to the end.
TokenRedacted(after) ==
    LET tokenEnd == IndexAny(after, BoundaryChars)
    IN  IF tokenEnd # -1 THEN Redacted \o From(after, tokenEnd) ELSE Redacted

\* s with the token after each "Bearer " marker replaced, and the rest as
\* it is.
EveryTokenRedacted(s) ==
    LET parts == Split(s, BearerMarker)
    IN  Join([k \in DOMAIN parts |->
                 IF k = 1 THEN parts[k] ELSE TokenRedacted(parts[k])],
             BearerMarker)

\* C21: of an error text that holds "Bearer " markers (and no URL, which
\* the other branch rewrites) sanitizeErrorMessage replaces the token after
\* each marker by "[REDACTED]" and leaves the rest; a text with no marker
\* and no URL comes back as it is.  The texts are those of the errors
\* Search returns to the Handler.
C21_EveryTokenRedacted ==
    (Returned /\ Called /\ ret.err # NoErr /\ ~Contains(ret.err.msg, HttpMarker)) =>
        IF Contains(ret.err.msg, BearerMarker)
        THEN sanitizeErrorMessage(ret.err.msg) = EveryTokenRedacted(ret.err.msg)
        ELSE sanitizeErrorMessage(ret.err.msg) = ret.err.msg

\* The Handler has rendered a response Search returned.
Rendered == pc = "done" /\ Called /\ ret.err = NoErr

\* The count line of the rendered text reads the number of results of the
\* provider's response.
CountLineReads ==
    Contains(result.text, OutResults \o Itoa(Len(outcome.body.value)) \o OutNl)

\* C22: when the Handler has rendered a response whose body holds N
\* results and a summary text (the text the body holds outside the members
\* Search decodes), the rendered text has a count line reading N, and it
\* holds the summary text when the summary flag was true and not when it
\* was false.
C22_SummaryRendered ==
    (Rendered /\ outcome.body.detail # <<>>) =>
        /\ CountLineReads
        /\ call.summary <=> Contains(result.text, outcome.body.detail)

\* The number of places where sub occurs in s.
Occurrences(s, sub) ==
    Cardinality({k \in 0..(Len(s) - Len(sub)) : SubSeq(s, k + 1, k + Len(sub)) = sub})

\* The list of results of a rendered text: what follows the heading
\* "Search Results:" and its rule, up to the heading of the images or to the
\* end.
ResultList(text) ==
    LET heading == OutSearchResults \o OutRule
        rest    == From(text, Index(text, heading) + Len(heading))
        images  == Index(rest, OutImageResults)
    IN  IF images = -1 THEN rest ELSE Upto(rest, images)

\* The first two lines of the entry numbered k for the result r.
EntryHead(k, r) ==
    Itoa(k) \o OutDot \o r.name \o OutNl \o OutUrl \o r.url \o OutNl

\* C23: when Search succeeds with a response of N results, the Handler's
\* result is a text result and no error, its "Results:" line shows N, and
\* its list of results holds exactly N entries: the entry numbered k holds
\* the title and the URL of the provider's k-th result, and the entries
\* come in the provider's order.  With N = 0 the list is empty.
C23_ResultsListed ==
    Rendered =>
        LET value == outcome.body.value
            N     == Len(value)
            list  == ResultList(result.text)
        IN  /\ ~result.isNil /\ ~result.isError /\ goErr = "nil"
            /\ Contains(result.text, OutResults \o Itoa(N) \o OutNlNl)
            /\ Contains(result.text, OutSearchResults \o OutRule)
            /\ Occurrences(list, OutUrl) = N
            /\ \A k \in 1..N : Contains(list, EntryHead(k, value[k]))
            /\ \A k \in 1..(N - 1) :
                  Index(list, EntryHead(k, value[k]))
                      < Index(list, EntryHead(k + 1, value[k + 1]))
            /\ N = 0 => list = <<>>

\* The Handler has rendered a response of two results.
C23_Witness ==
    /\ Rendered /\ Len(outcome.body.value) = 2 /\ ~result.isError
    /\ Occurrences(ResultList(result.text), OutUrl) = 2

\* No layout of formatDate parses s.
MatchesNoLayout(s) ==
    ~ParseRFC3339(s).ok /\ ~ParseZulu(s).ok /\ ~ParseDay(s).ok

\* C24: formatDate has a value for every date text, formatting its value
\* again gives the same value, and a text that no layout parses comes back
\* as it is; the Handler's "Date:" line holds that value.  The date texts
\* are those of the one result of the provider's response.
C24_FormatDateIdempotent ==
    (Rendered /\ Len(outcome.body.value) = 1) =>
        LET d    == outcome.body.value[1].dateLastCrawled
            once == formatDate(d)
        IN  /\ once \in Seq({once[k] : k \in DOMAIN once})
            /\ formatDate(once) = once
            /\ MatchesNoLayout(d) => once = d
            /\ d # <<>> => Contains(result.text, OutDate \o once \o OutNl)

\* The Handler has rendered a date with a zone offset in the long form.
C24_Witness ==
    /\ Rendered /\ Len(outcome.body.value) = 1
    /\ outcome.body.value[1].dateLastCrawled = DayMarch \o ClockOffset
    /\ formatDate(DayMarch \o ClockOffset) = DateLong
    /\ Contains(result.text, OutDate \o DateLong \o OutNl)

Expected(v, old) == IF v.t = "string" /\ v.s # <<>> THEN v.s ELSE old

\* The durations the timeout texts of the model mean, in milliseconds.
ExpectedTimeout(v, old) ==
    IF v = Str(Text15s) THEN 15000
    ELSE IF v = Str(Text500ms) THEN 500
    ELSE IF v = Str(Text2m) THEN 120000
    ELSE old

\* The call read a YAML document at a path inside the working directory.
LoadedValidFile ==
    /\ load.err # "none"
    /\ load.cwd = CwdApp
    /\ load.path \in {PathInCwd, PathViaSub}
    /\ load.file.kind = "doc"
    /\ \A k \in DOMAIN load.file.doc : load.file.doc[k].t # "seq"

InvalidInput == call.query = <<>> \/ ~SearchFreshnessOk(call.freshness)

\* C27: the token is acquired before any validation.  A Search call with
\* an empty query or an invalid freshness that the limiter has let through
\* returns the validation error with one token taken from the bucket and no
\* HTTP request issued; the step that returns a validation error is the
\* step that takes the token or the end of the wait for it; and a call
\* whose context has ended when it enters Search fails with the rate-limit
\* error, whatever its query and its freshness, with no token taken and no
\* request issued.
C27_TokenBeforeValidation ==
    /\ []((Called /\ Returned /\ InvalidInput /\ ~RateLimited) =>
            /\ ret.err = SearchValidate(call)
            /\ ret.resp.isNil
            /\ nTaken = 1
            /\ nHttp = 0 /\ sent = NoRequest)
    /\ [][/\ (pc = "search" /\ pc' = "ret" /\ ~RateLimited') =>
                (tokens' = tokens - 1 /\ nTaken' = 1 /\ nTaken = 0)
          /\ (pc = "wait" /\ pc' = "ret" /\ ~RateLimited') => (need = 0 /\ nTaken = 1)
          /\ (pc = "search" /\ ctxErr # "nil" /\ pc' # "search") =>
                (RateLimited' /\ nTaken' = 0 /\ nHttp' = 0 /\ tokens' = tokens)]_vars

\* Search has returned the empty-query error for a call whose freshness
\* is invalid too, with a token taken and no request issued.
C27_Witness ==
    /\ caller = "other" /\ pc = "ret"
    /\ call.query = <<>> /\ call.freshness = FHour
    /\ ret.err.msg = ErrEmptyQuery
    /\ nTaken = 1 /\ nHttp = 0 /\ tokens < Burst

\* C28: the rate limiter belongs to one BochaService.  No step of a Search
\* call on this BochaService, and no step of its limiter, changes the
\* tokens of the other BochaService, no step of the other one changes the
\* tokens of this one, and no step changes the apiKey, the apiBaseURL or
\* the client's Timeout.
C28_LimiterPerInstance ==
    /\ [][cfg' = cfg]_vars
    /\ [][(pc' # pc \/ searchVars' # searchVars \/ limiterVars' # limiterVars)
            => otherTokens' = otherTokens]_vars
    /\ [](cfg.apiKey = ApiKey /\ cfg.apiBaseURL \in {UrlPlain, UrlPort}
            /\ cfg.timeout = 10000)

\* This BochaService's call waits at its empty bucket, a reservation deep,
\* while the bucket of the other one is full.
C28_Witness ==
    /\ pc = "wait" /\ nTaken = 1 /\ tokens < 0
    /\ otherTokens = Burst

\* The tokens a call can take at once: the bucket's count, and none when
\* the count is at or below zero, where it stands for reserved tokens.
Available == IF tokens > 0 THEN tokens ELSE 0

\* The waiting calls whose time has come.
Ready == Cardinality({i \in 1..Len(queue) : queue[i] = 0})

\* C29: the tokens available are between 0 and the burst 20 in every
\* state; the calls passed are at most 20 more than the tenths of a second
\* elapsed, so at most 20 pass while no time passes; a step passes one call
\* and takes one available token or ends one wait whose time has come; and
\* the calls passed, the tokens available and the waits whose time has come
\* grow together by no more than one in a tenth of a second and not at all
\* otherwise, so from an empty bucket on no more than 10 calls a second pass,
\* however many wait.
C29_BucketBounded ==
    /\ [](Available \in 0..Burst /\ tokens <= Burst)
    /\ [](passed <= Burst + elapsed)
    /\ [][passed' # passed =>
            /\ passed' = passed + 1
            /\ elapsed' = elapsed
            /\ Available' + Ready' = Available + Ready - 1]_vars
    /\ [][/\ passed' + Available' + Ready' <= passed + Available + Ready + 1
          /\ elapsed' = elapsed =>
                passed' + Available' + Ready' <= passed + Available + Ready]_vars

\* Two tenths of a second after the start 22 calls have passed, the bucket
\* is empty and calls wait.
C29_Witness ==
    /\ elapsed = 2 /\ passed = Burst + 2
    /\ tokens < 0 /\ Len(queue) >= 2

\* C30: every return of Search is a nil response with an error or a
\* response with no error; a response returned has a results collection
\* that is not nil; and where the Handler renders results, Search returned
\* a response.
C30_ResponseXorError ==
    /\ (Called /\ Returned) =>
          /\ ret.resp.isNil <=> ret.err # NoErr
          /\ ~ret.resp.isNil => ~ret.resp.valueNil
    /\ Rendered => (~ret.resp.isNil /\ ~ret.resp.valueNil)

\* Search has returned a response whose results collection is not nil and
\* has no element.
C30_Witness ==
    /\ pc = "ret" /\ Called
    /\ ret.err = NoErr /\ ~ret.resp.isNil
    /\ ~ret.resp.valueNil /\ ret.resp.value = <<>>

====
